---- MODULE Spec2Model ----
(***************************************************************************)
(* The editing pipeline of FrameNextEditor: processVideoPipeline and the   *)
(* stage functions it awaits (trimVideo, insertVideo, mergeVideos with     *)
(* normalizeVideo, applySpeed, replaceAudio, applySpeedWithAudio, mixAudio,*)
(* applySpeedWithMixedAudio) together with cleanupTempFiles.               *)
(*                                                                         *)
(* One behaviour is one call of processVideoPipeline.  pc is the program   *)
(* point of the call: either a synchronous decision point or the await the *)
(* call is suspended at.  The media engine (ffmpeg / ffprobe) and the file *)
(* system are the environment: every engine run and every probe succeeds   *)
(* or fails nondeterministically, except that a run or probe that reads a  *)
(* file which is not on disk always fails; every unlink may fail.          *)
(***************************************************************************)
EXTENDS Integers, Sequences, FiniteSets, TLC

\* ---------------------------------------------------------------- bounds
MaxMerge == 2
MaxTrimEnd == 2
MaxMissing == 1
MaxUnlinkFailures == 1
MaxClock == 1
MaxDirs == 2
MaxDur == 4
MaxClip == 2

TrimStart == 1

\* ----------------------------------------------------------------- paths
\* A path is <<kind, index>>; the Date.now() token of the temp names is
\* constant within one call and left out of the name.
Base == <<"base", 0>>
InsertClip == <<"insert_clip", 0>>
AudioFile == <<"audio", 0>>
Out == <<"output", 0>>
MergeClip(j) == <<"merge_clip", j>>
TempTrim == <<"temp_trim", 0>>
TempInsert == <<"temp_insert", 0>>
TempMerge == <<"temp_merge", 0>>
NormalizedMain == <<"normalized_main", 0>>
NormalizedMerge(k) == <<"normalized_merge", k>>
ConcatFile == <<"concat", 0>>
TempEffects == <<"temp_effects", 0>>

MergeClips == {MergeClip(j) : j \in 1..MaxMerge}
UserAssets == {Base, InsertClip, AudioFile} \cup MergeClips
PipelineTemps == {TempTrim, TempInsert, TempMerge, TempEffects}
MergeTemps == {NormalizedMain, ConcatFile} \cup {NormalizedMerge(k) : k \in 0..(MaxMerge - 1)}
TempPaths == PipelineTemps \cup MergeTemps
AllPaths == UserAssets \cup TempPaths \cup {Out}

Range(s) == {s[k] : k \in 1..Len(s)}

\* -------------------------------------------------------- feature request
\* trim: present = FALSE stands for null/undefined.
\* The window starts at TrimStart, so that its end can be before, at or after it.
TrimValues == {[present |-> FALSE, start |-> 0, end |-> 0]} \cup [present : {TRUE}, start : {TrimStart}, end : 0..MaxTrimEnd]
\* insert: present = FALSE stands for null; video is always InsertClip.
InsertValues == {[present |-> FALSE], [present |-> TRUE]}
\* merge: the list of clip paths; <<>> stands for null as well as [].
MergeValues == {[j \in 1..n |-> MergeClip(j)] : n \in 0..MaxMerge}
\* speed in quarters (4 = 1.0x); 0 stands for null.
SpeedValues == {0, 4, 8}
\* audio: kind "none" (null), "string" (old format), "object" (new format).
\* hasDuration: whether options.audioDuration is passed on; the string format
\* carries none, the object format built by getFeatures always carries it.
AudioValues == {[kind |-> "none", mode |-> "replace", hasDuration |-> FALSE], [kind |-> "string", mode |-> "replace", hasDuration |-> FALSE]} \cup [kind : {"object"}, mode : {"replace", "mix_inserted_main", "mix_video_main"}, hasDuration : {TRUE}]

FeatureRequests == [trim : TrimValues, insert : InsertValues, merge : MergeValues, speed : SpeedValues, audio : AudioValues]

VARIABLES features, missing, baseHasAudio, pc, currentVideo, tempFiles, mTempFiles, props, normalizedMergeVideos, i, fx, useMixing, disk, calls, probes, thrown, error, result, attempted, delFailed, hpc, hlog, clock, cinv, cfiles, builderIn, graph

vars == <<features, missing, baseHasAudio, pc, currentVideo, tempFiles, mTempFiles, props, normalizedMergeVideos, i, fx, useMixing, disk, calls, probes, thrown, error, result, attempted, delFailed, hpc, hlog, clock, cinv, cfiles, builderIn, graph>>

\* The state of the other specifications of this module: the two calls in
\* flight together, and the filter-graph builder taken alone.
other == <<clock, cinv, cfiles, builderIn, graph>>

\* What no step of processVideoPipeline changes: its arguments, the user's
\* files, and the state of the handler that called it.
env == <<features, missing, baseHasAudio, hpc, hlog, other>>

\* ---------------------------------------------------- request predicates
hasInsert(f) == f.insert.present

TrimStageRuns_NoInsertCheck(f) == f.trim.present /\ f.trim.start >= 0 /\ f.trim.end > f.trim.start

TrimStageRuns(f) == f.trim.present /\ ~hasInsert(f) /\ f.trim.start >= 0 /\ f.trim.end > f.trim.start

hasMerge(f) == Len(f.merge) > 0

hasSpeed(f) == f.speed # 0 /\ f.speed # 4

hasAudio(f) == f.audio.kind # "none"

hasAudioOptions(f) == f.audio.kind = "object"

\* The assets the request names besides the base.
NamedAssets(f) == (IF hasInsert(f) THEN {InsertClip} ELSE {}) \cup Range(f.merge) \cup (IF hasAudio(f) THEN {AudioFile} ELSE {})

\* Whether an artifact carries an audio stream: a trim keeps the base's
\* streams, insert and merge always map an audio stream ([outa], [a]).
HasAudioStream(p) == IF p \in {Base, TempTrim} THEN baseHasAudio ELSE TRUE

\* Whether the call reads the base asset's audio presence: only the effects
\* stage of an object-format audio request does, and only when the artifact
\* reaching it is the base or its trim.
ReadsBaseAudio(f) == hasAudioOptions(f) /\ ~hasInsert(f) /\ ~hasMerge(f)

\* ----------------------------------------------------------------- errors
NoError == [src |-> "none", at |-> 0, wrapped |-> FALSE]
EngineError(n) == [src |-> "engine", at |-> n, wrapped |-> FALSE]
ProbeError(n) == [src |-> "probe", at |-> n, wrapped |-> FALSE]
CleanupError == [src |-> "cleanup", at |-> 0, wrapped |-> FALSE]

\* No target properties taken yet.
NoProps == <<"none", 0>>

NoBuilder == [fn |-> "none"]

NoGraph == [built |-> FALSE]

\* No second call is in flight, and no builder is looked at alone.
NoOther ==
  /\ clock = 0
  /\ cinv = <<>>
  /\ cfiles = {}
  /\ builderIn = NoBuilder
  /\ graph = NoGraph

\* The state on entry of processVideoPipeline: currentVideo = mainVideo,
\* tempFiles = [], nothing run, probed or deleted yet.
CallEntry ==
  /\ pc = "step1a"
  /\ currentVideo = Base
  /\ tempFiles = <<>>
  /\ mTempFiles = <<>>
  /\ props = NoProps
  /\ normalizedMergeVideos = <<>>
  /\ i = 0
  /\ fx = "none"
  /\ useMixing = FALSE
  /\ disk = [p \in AllPaths |-> IF p \in UserAssets /\ p \notin missing THEN "complete" ELSE "absent"]
  /\ calls = <<>>
  /\ probes = <<>>
  /\ thrown = NoError
  /\ error = NoError
  /\ result = "pending"
  /\ attempted = {}
  /\ delFailed = {}

Init ==
  /\ features \in FeatureRequests
  /\ missing \in {m \in SUBSET NamedAssets(features) : Cardinality(m) <= MaxMissing}
  /\ baseHasAudio \in (IF ReadsBaseAudio(features) THEN BOOLEAN ELSE {TRUE})
  /\ CallEntry
  /\ hpc = "pipeline"
  /\ hlog = <<>>
  /\ NoOther

\* ------------------------------------------------------------ environment
NoTrimInfo == [present |-> FALSE, start |-> 0, end |-> 0]

\* An engine run is started: it is appended to calls as "running".
StartEngine(stage, op, inputs, output, trimInfo) ==
  calls' = Append(calls, [stage |-> stage, op |-> op, inputs |-> inputs, output |-> output, trimInfo |-> trimInfo, status |-> "running"])

\* The outcomes of the run in flight: it cannot succeed on a missing input.
EngineOutcomes == IF \A p \in calls[Len(calls)].inputs : disk[p] = "complete" THEN BOOLEAN ELSE {FALSE}

\* What a failed run may leave at its output path.
Leftovers == {"absent", "partial"}

\* The run in flight ends ('end' or 'error' event).
CallsAfterRun(ok) == [calls EXCEPT ![Len(calls)].status = IF ok THEN "ok" ELSE "failed"]

DiskAfterRun(ok, left) == [disk EXCEPT ![calls[Len(calls)].output] = IF ok THEN "complete" ELSE left]

ProbeOutcomes(p) == IF disk[p] = "complete" THEN BOOLEAN ELSE {FALSE}

\* getVideoMetadata(p) / ffprobe(p) settles; swallowed: the rejection is caught
\* where it happens and the function goes on.
ProbeEnds(p, by, ok, swallowed) ==
  probes' = Append(probes, [path |-> p, by |-> by, ok |-> ok, swallowed |-> swallowed])

\* ------------------------------------------------------------------ cleanup
\* The files of a list that are on disk (fs.existsSync is true for them).
Existing(files, d) == {files[k] : k \in {n \in 1..Len(files) : d[files[n]] # "absent"}}

\* The sets of paths whose unlinkSync may throw during one cleanup: at most
\* MaxUnlinkFailures paths fail to be deleted in one call of the pipeline.
UnlinkFailures(files, d, failed) == {F \in SUBSET Existing(files, d) : Cardinality(failed \cup F) <= MaxUnlinkFailures}

\* The first position of files whose unlink fails, Len(files) + 1 if none does.
FirstFailure(files, d, failing) ==
  LET bad == {k \in 1..Len(files) : d[files[k]] # "absent" /\ files[k] \in failing}
  IN IF bad = {} THEN Len(files) + 1 ELSE CHOOSE k \in bad : \A m \in bad : k <= m

\* A cleanup whose try/catch is around the whole loop and rethrows.
cleanupTempFiles_StopAtFirstFailure(files, d, failing) ==
  LET ff == FirstFailure(files, d, failing)
      tried == {files[k] : k \in {n \in 1..Len(files) : n <= ff /\ d[files[n]] # "absent"}}
  IN [attempted |-> tried,
      disk |-> [p \in AllPaths |-> IF p \in tried \ failing THEN "absent" ELSE d[p]],
      thrown |-> ff <= Len(files)]

\* cleanupTempFiles(tempFiles): for each file, in its own try/catch, unlink it
\* if it exists.  failing is the set of paths whose unlinkSync throws.
cleanupTempFiles(files, d, failing) ==
  [attempted |-> Existing(files, d),
   disk |-> [p \in AllPaths |-> IF p \in Existing(files, d) \ failing THEN "absent" ELSE d[p]],
   thrown |-> FALSE]

\* The same loop, written inline in the finally block of mergeVideos.
mergeCleanup(files, d, failing) ==
  [attempted |-> Existing(files, d),
   disk |-> [p \in AllPaths |-> IF p \in Existing(files, d) \ failing THEN "absent" ELSE d[p]]]

\* processVideoPipeline: catch (error) { cleanupTempFiles(tempFiles); throw
\* error; } finally { cleanupTempFiles(tempFiles); } and the promise rejects.
\* orig is the error first thrown, e the error that reaches the catch; d, att
\* and failed are the disk and the unlink history when the catch is entered.
CatchFinally(orig, e, d, att, failed) ==
  \E d0 \in {d} : \E F1 \in UnlinkFailures(tempFiles, d0, failed) :
    \E r1 \in {cleanupTempFiles(tempFiles, d0, F1)} :
      \E failed1 \in {failed \cup (F1 \cap r1.attempted)} :
        \E F2 \in UnlinkFailures(tempFiles, r1.disk, failed1) :
          \E r2 \in {cleanupTempFiles(tempFiles, r1.disk, F2)} :
            /\ disk' = r2.disk
            /\ attempted' = att \cup r1.attempted \cup r2.attempted
            /\ delFailed' = failed1 \cup (F2 \cap r2.attempted)
            /\ error' = IF r1.thrown \/ r2.thrown THEN CleanupError ELSE e
            /\ thrown' = orig
            /\ result' = "threw"
            /\ pc' = "done"

\* processVideoPipeline: return outputPath; finally { cleanupTempFiles } and
\* the promise resolves (or rejects, should the finally block throw).
ReturnFinally(d) ==
  \E d0 \in {d} : \E F \in UnlinkFailures(tempFiles, d0, delFailed) :
    \E r \in {cleanupTempFiles(tempFiles, d0, F)} :
      /\ disk' = r.disk
      /\ attempted' = attempted \cup r.attempted
      /\ delFailed' = delFailed \cup (F \cap r.attempted)
      /\ error' = IF r.thrown THEN CleanupError ELSE NoError
      /\ result' = IF r.thrown THEN "threw" ELSE "returned"
      /\ pc' = "done"
      /\ UNCHANGED thrown

\* A catch block that rethrows a new error built from the caught one.
MergeCatchError_Wrapped(e) == [e EXCEPT !.wrapped = TRUE]

\* mergeVideos: catch (error) { console.error(...); throw error; }
MergeCatchError(e) == e

\* mergeVideos throws e: its catch, its finally (the inline cleanup of its own
\* temp files), then the rejection reaches the catch of processVideoPipeline.
MergeThrows(e, d) ==
  \E d0 \in {d} : \E F0 \in UnlinkFailures(mTempFiles, d0, delFailed) :
    \E r0 \in {mergeCleanup(mTempFiles, d0, F0)} :
      CatchFinally(e, MergeCatchError(e), r0.disk, attempted \cup r0.attempted, delFailed \cup (F0 \cap r0.attempted))

\* mergeVideos returns: its finally, then currentVideo = tempMergeFile.
MergeReturns(d) ==
  \E d0 \in {d} : \E F0 \in UnlinkFailures(mTempFiles, d0, delFailed) :
    \E r0 \in {mergeCleanup(mTempFiles, d0, F0)} :
      /\ disk' = r0.disk
      /\ attempted' = attempted \cup r0.attempted
      /\ delFailed' = delFailed \cup (F0 \cap r0.attempted)
      /\ currentVideo' = TempMerge
      /\ pc' = "step3"
      /\ UNCHANGED <<thrown, error, result>>

outcome == <<disk, thrown, error, result, attempted, delFailed>>

\* ------------------------------------------------------------ STEP 1a: trim
\* The trim is started but not awaited.
Step1a_NoAwait ==
  /\ pc = "step1a"
  /\ IF TrimStageRuns(features)
       THEN /\ tempFiles' = Append(tempFiles, TempTrim)
            /\ StartEngine("structural", "trim", {currentVideo}, TempTrim, features.trim)
            /\ currentVideo' = TempTrim
       ELSE UNCHANGED <<tempFiles, calls, currentVideo>>
  /\ pc' = "step1b"
  /\ UNCHANGED <<env, mTempFiles, props, normalizedMergeVideos, i, fx, useMixing, probes, outcome>>

\* if (features.trim && !hasInsert && ...) { tempFiles.push(tempTrimFile);
\* await trimVideo(currentVideo, start, end, tempTrimFile); ...
Step1a ==
  /\ pc = "step1a"
  /\ IF TrimStageRuns(features)
       THEN /\ tempFiles' = Append(tempFiles, TempTrim)
            /\ StartEngine("structural", "trim", {currentVideo}, TempTrim, features.trim)
            /\ pc' = "await_trim"
       ELSE /\ pc' = "step1b"
            /\ UNCHANGED <<tempFiles, calls>>
  /\ UNCHANGED <<env, currentVideo, mTempFiles, props, normalizedMergeVideos, i, fx, useMixing, probes, outcome>>

\* trimVideo settles and currentVideo is left as it was.
TrimDone_KeepCurrent ==
  /\ pc = "await_trim"
  /\ \E ok \in EngineOutcomes :
       /\ calls' = CallsAfterRun(ok)
       /\ IF ok
            THEN /\ disk' = DiskAfterRun(TRUE, "complete")
                 /\ pc' = "step1b"
                 /\ UNCHANGED <<thrown, error, result, attempted, delFailed>>
            ELSE \E left \in Leftovers : CatchFinally(EngineError(Len(calls)), EngineError(Len(calls)), DiskAfterRun(FALSE, left), attempted, delFailed)
  /\ UNCHANGED <<env, currentVideo, tempFiles, mTempFiles, props, normalizedMergeVideos, i, fx, useMixing, probes>>

\* trimVideo settles: currentVideo = tempTrimFile, or the rejection is thrown.
TrimDone ==
  /\ pc = "await_trim"
  /\ \E ok \in EngineOutcomes :
       /\ calls' = CallsAfterRun(ok)
       /\ IF ok
            THEN /\ disk' = DiskAfterRun(TRUE, "complete")
                 /\ currentVideo' = TempTrim
                 /\ pc' = "step1b"
                 /\ UNCHANGED <<thrown, error, result, attempted, delFailed>>
            ELSE /\ \E left \in Leftovers : CatchFinally(EngineError(Len(calls)), EngineError(Len(calls)), DiskAfterRun(FALSE, left), attempted, delFailed)
                 /\ UNCHANGED currentVideo
  /\ UNCHANGED <<env, tempFiles, mTempFiles, props, normalizedMergeVideos, i, fx, useMixing, probes>>

\* ---------------------------------------------------------- STEP 1b: insert
\* The insert stage registers the clip it reads along with its output.
Step1b_RegistersClip ==
  /\ pc = "step1b"
  /\ IF hasInsert(features)
       THEN /\ tempFiles' = Append(Append(tempFiles, InsertClip), TempInsert)
            /\ pc' = "ins_probe_main"
       ELSE /\ pc' = "step2"
            /\ UNCHANGED tempFiles
  /\ UNCHANGED <<env, currentVideo, mTempFiles, props, normalizedMergeVideos, i, fx, useMixing, calls, probes, outcome>>

\* if (hasInsert) { tempFiles.push(tempInsertFile); await insertVideo(...)
Step1b ==
  /\ pc = "step1b"
  /\ IF hasInsert(features)
       THEN /\ tempFiles' = Append(tempFiles, TempInsert)
            /\ pc' = "ins_probe_main"
       ELSE /\ pc' = "step2"
            /\ UNCHANGED tempFiles
  /\ UNCHANGED <<env, currentVideo, mTempFiles, props, normalizedMergeVideos, i, fx, useMixing, calls, probes, outcome>>

\* insertVideo: const mainMeta = await getVideoMetadata(mainVideo)
InsertProbeMain ==
  /\ pc = "ins_probe_main"
  /\ \E ok \in ProbeOutcomes(currentVideo) :
       /\ ProbeEnds(currentVideo, "insertVideo", ok, FALSE)
       /\ IF ok
            THEN pc' = "ins_probe_ins" /\ UNCHANGED outcome
            ELSE CatchFinally(ProbeError(Len(probes) + 1), ProbeError(Len(probes) + 1), disk, attempted, delFailed)
  /\ UNCHANGED <<env, currentVideo, tempFiles, mTempFiles, props, normalizedMergeVideos, i, fx, useMixing, calls>>

\* insertVideo: const insMeta = await getVideoMetadata(insertVideoPath), then
\* the filter graph is built and the engine is run on both inputs.
InsertProbeIns ==
  /\ pc = "ins_probe_ins"
  /\ \E ok \in ProbeOutcomes(InsertClip) :
       /\ ProbeEnds(InsertClip, "insertVideo", ok, FALSE)
       /\ IF ok
            THEN /\ StartEngine("structural", "insert", {currentVideo, InsertClip}, TempInsert, features.trim)
                 /\ pc' = "await_insert"
                 /\ UNCHANGED outcome
            ELSE /\ CatchFinally(ProbeError(Len(probes) + 1), ProbeError(Len(probes) + 1), disk, attempted, delFailed)
                 /\ UNCHANGED calls
  /\ UNCHANGED <<env, currentVideo, tempFiles, mTempFiles, props, normalizedMergeVideos, i, fx, useMixing>>

\* insertVideo settles: currentVideo = tempInsertFile, or the rejection is thrown.
InsertDone ==
  /\ pc = "await_insert"
  /\ \E ok \in EngineOutcomes :
       /\ calls' = CallsAfterRun(ok)
       /\ IF ok
            THEN /\ disk' = DiskAfterRun(TRUE, "complete")
                 /\ currentVideo' = TempInsert
                 /\ pc' = "step2"
                 /\ UNCHANGED <<thrown, error, result, attempted, delFailed>>
            ELSE /\ \E left \in Leftovers : CatchFinally(EngineError(Len(calls)), EngineError(Len(calls)), DiskAfterRun(FALSE, left), attempted, delFailed)
                 /\ UNCHANGED currentVideo
  /\ UNCHANGED <<env, tempFiles, mTempFiles, props, normalizedMergeVideos, i, fx, useMixing, probes>>

\* ------------------------------------------------------------ STEP 2: merge
\* The merge output is not registered before mergeVideos is awaited.
Step2_RegisterLate ==
  /\ pc = "step2"
  /\ pc' = IF hasMerge(features) THEN "mg_probe_main" ELSE "step3"
  /\ UNCHANGED <<env, tempFiles, currentVideo, mTempFiles, props, normalizedMergeVideos, i, fx, useMixing, calls, probes, outcome>>

\* if (hasMerge) { tempFiles.push(tempMergeFile); await mergeVideos(...)
Step2 ==
  /\ pc = "step2"
  /\ IF hasMerge(features)
       THEN /\ tempFiles' = Append(tempFiles, TempMerge)
            /\ pc' = "mg_probe_main"
       ELSE /\ pc' = "step3"
            /\ UNCHANGED tempFiles
  /\ UNCHANGED <<env, currentVideo, mTempFiles, props, normalizedMergeVideos, i, fx, useMixing, calls, probes, outcome>>

\* mergeVideos: const mainMeta = await getVideoMetadata(mainVideo); on success
\* props = getVideoProperties(mainMeta) (props holds whose properties they
\* are), normalized_main is registered and normalizeVideo(mainVideo, ...) is entered.
MergeProbeMain ==
  /\ pc = "mg_probe_main"
  /\ \E ok \in ProbeOutcomes(currentVideo) :
       /\ ProbeEnds(currentVideo, "mergeVideos", ok, FALSE)
       /\ IF ok
            THEN /\ props' = currentVideo
                 /\ mTempFiles' = Append(mTempFiles, NormalizedMain)
                 /\ pc' = "mg_norm_main_probe"
                 /\ UNCHANGED outcome
            ELSE /\ MergeThrows(ProbeError(Len(probes) + 1), disk)
                 /\ UNCHANGED <<mTempFiles, props>>
  /\ UNCHANGED <<env, currentVideo, tempFiles, normalizedMergeVideos, i, fx, useMixing, calls>>

\* normalizeVideo(mainVideo, normalizedMain, ...): its own probe, then the run.
NormalizeMainProbe ==
  /\ pc = "mg_norm_main_probe"
  /\ \E ok \in ProbeOutcomes(currentVideo) :
       /\ ProbeEnds(currentVideo, "normalizeVideo", ok, FALSE)
       /\ IF ok
            THEN /\ StartEngine("merge", "normalize", {currentVideo}, NormalizedMain, NoTrimInfo)
                 /\ pc' = "await_norm_main"
                 /\ UNCHANGED outcome
            ELSE /\ MergeThrows(ProbeError(Len(probes) + 1), disk)
                 /\ UNCHANGED calls
  /\ UNCHANGED <<env, currentVideo, tempFiles, mTempFiles, props, normalizedMergeVideos, i, fx, useMixing>>

\* normalizeVideo of the main video settles; the loop over the list starts.
NormalizeMainDone ==
  /\ pc = "await_norm_main"
  /\ \E ok \in EngineOutcomes :
       /\ calls' = CallsAfterRun(ok)
       /\ IF ok
            THEN /\ disk' = DiskAfterRun(TRUE, "complete")
                 /\ pc' = "mg_loop"
                 /\ UNCHANGED <<thrown, error, result, attempted, delFailed>>
            ELSE \E left \in Leftovers : MergeThrows(EngineError(Len(calls)), DiskAfterRun(FALSE, left))
  /\ i' = 0
  /\ UNCHANGED <<env, currentVideo, tempFiles, mTempFiles, props, normalizedMergeVideos, fx, useMixing, probes>>

\* The loop head of "for (let i = 0; i < mergeVideos.length; i++)": an entry
\* that is not on disk is skipped; after the last entry the concat list is
\* registered and written and the concat demuxer is run.
MergeLoop ==
  /\ pc = "mg_loop"
  /\ IF i < Len(features.merge)
       THEN /\ IF disk[features.merge[i + 1]] # "absent"
                 THEN pc' = "mg_probe_clip" /\ i' = i
                 ELSE pc' = "mg_loop" /\ i' = i + 1
            /\ UNCHANGED <<mTempFiles, props, disk, calls>>
       ELSE /\ mTempFiles' = Append(mTempFiles, ConcatFile)
            /\ UNCHANGED props
            /\ disk' = [disk EXCEPT ![ConcatFile] = "complete"]
            /\ StartEngine("merge", "concat", {NormalizedMain, ConcatFile} \cup Range(normalizedMergeVideos), TempMerge, NoTrimInfo)
            /\ pc' = "await_concat"
            /\ i' = i
  /\ UNCHANGED <<env, currentVideo, tempFiles, normalizedMergeVideos, fx, useMixing, probes, thrown, error, result, attempted, delFailed>>

\* const mergeMeta = await getVideoMetadata(normalizedPath); then
\* normalized_merge_i is registered and normalizeVideo is entered.
MergeProbeClip ==
  /\ pc = "mg_probe_clip"
  /\ \E ok \in ProbeOutcomes(features.merge[i + 1]) :
       /\ ProbeEnds(features.merge[i + 1], "mergeVideos", ok, FALSE)
       /\ IF ok
            THEN /\ mTempFiles' = Append(mTempFiles, NormalizedMerge(i))
                 /\ UNCHANGED props
                 /\ pc' = "mg_norm_clip_probe"
                 /\ UNCHANGED outcome
            ELSE /\ MergeThrows(ProbeError(Len(probes) + 1), disk)
                 /\ UNCHANGED <<mTempFiles, props>>
  /\ UNCHANGED <<env, currentVideo, tempFiles, normalizedMergeVideos, i, fx, useMixing, calls>>

\* normalizeVideo(normalizedPath, normalizedMerge, ...): its probe, then the run.
NormalizeClipProbe ==
  /\ pc = "mg_norm_clip_probe"
  /\ \E ok \in ProbeOutcomes(features.merge[i + 1]) :
       /\ ProbeEnds(features.merge[i + 1], "normalizeVideo", ok, FALSE)
       /\ IF ok
            THEN /\ StartEngine("merge", "normalize", {features.merge[i + 1]}, NormalizedMerge(i), NoTrimInfo)
                 /\ pc' = "await_norm_clip"
                 /\ UNCHANGED outcome
            ELSE /\ MergeThrows(ProbeError(Len(probes) + 1), disk)
                 /\ UNCHANGED calls
  /\ UNCHANGED <<env, currentVideo, tempFiles, mTempFiles, props, normalizedMergeVideos, i, fx, useMixing>>

\* normalizeVideo of entry i settles: it is pushed on normalizedMergeVideos.
NormalizeClipDone ==
  /\ pc = "await_norm_clip"
  /\ \E ok \in EngineOutcomes :
       /\ calls' = CallsAfterRun(ok)
       /\ IF ok
            THEN /\ disk' = DiskAfterRun(TRUE, "complete")
                 /\ normalizedMergeVideos' = Append(normalizedMergeVideos, NormalizedMerge(i))
                 /\ i' = i + 1
                 /\ pc' = "mg_loop"
                 /\ UNCHANGED <<thrown, error, result, attempted, delFailed>>
            ELSE /\ \E left \in Leftovers : MergeThrows(EngineError(Len(calls)), DiskAfterRun(FALSE, left))
                 /\ UNCHANGED <<normalizedMergeVideos, i>>
  /\ UNCHANGED <<env, currentVideo, tempFiles, mTempFiles, props, fx, useMixing, probes>>

\* The concat run settles and mergeVideos returns or throws.
ConcatDone ==
  /\ pc = "await_concat"
  /\ \E ok \in EngineOutcomes :
       /\ calls' = CallsAfterRun(ok)
       /\ IF ok
            THEN MergeReturns(DiskAfterRun(TRUE, "complete"))
            ELSE /\ \E left \in Leftovers : MergeThrows(EngineError(Len(calls)), DiskAfterRun(FALSE, left))
                 /\ UNCHANGED currentVideo
  /\ UNCHANGED <<env, tempFiles, mTempFiles, props, normalizedMergeVideos, i, fx, useMixing, probes>>

\* ---------------------------------------------------------- STEP 3: effects
effectsOutputPath_Temp == TempEffects

\* const effectsOutputPath = outputPath
effectsOutputPath == Out

IsMixMode(f) == f.audio.mode \in {"mix_inserted_main", "mix_video_main"}

\* The branch of "if (hasSpeed && hasAudio) ... else if (hasSpeed) ... else if
\* (hasAudio) ... else" that is taken: the function awaited, or "copy".
EffectsFn(f, mixing) ==
  IF hasSpeed(f) /\ hasAudio(f) THEN (IF mixing THEN "applySpeedWithMixedAudio" ELSE "applySpeedWithAudio")
  ELSE IF hasSpeed(f) THEN "applySpeed"
  ELSE IF hasAudio(f) THEN (IF mixing THEN "mixAudio" ELSE "replaceAudio")
  ELSE "copy"

\* The operation the engine is asked for by each effects function.
EffectsOp(fn) ==
  CASE fn = "applySpeed" -> "speed"
    [] fn = "applySpeedWithAudio" -> "speed_replace"
    [] fn = "applySpeedWithMixedAudio" -> "speed_mix"
    [] fn = "replaceAudio" -> "replace"
    [] fn = "mixAudio" -> "mix"
    [] OTHER -> "copy"

EffectsInputs(fn) == IF fn \in {"copy", "applySpeed"} THEN {currentVideo} ELSE {currentVideo, AudioFile}

StartEffects(fn) == StartEngine("effects", EffectsOp(fn), EffectsInputs(fn), effectsOutputPath, NoTrimInfo)

\* if (hasAudio && audioOptions) the pipeline probes the current artifact.
Step3 ==
  /\ pc = "step3"
  /\ pc' = IF hasAudio(features) /\ hasAudioOptions(features) THEN "fx_check_audio" ELSE "dispatch"
  /\ UNCHANGED <<env, currentVideo, tempFiles, mTempFiles, props, normalizedMergeVideos, i, fx, useMixing, calls, probes, outcome>>

\* try { videoMeta = await getVideoMetadata(currentVideo); ... } catch (e) {
\* console.warn }: a rejection leaves videoHasAudio and useMixing false.
EffectsCheckAudio ==
  /\ pc = "fx_check_audio"
  /\ \E ok \in ProbeOutcomes(currentVideo) :
       /\ ProbeEnds(currentVideo, "processVideoPipeline", ok, ~ok)
       /\ useMixing' = (ok /\ HasAudioStream(currentVideo) /\ IsMixMode(features))
  /\ pc' = "dispatch"
  /\ UNCHANGED <<env, currentVideo, tempFiles, mTempFiles, props, normalizedMergeVideos, i, fx, calls, outcome>>

\* The effects branch is entered: the stream copy runs the engine at once,
\* every other branch calls a function that first probes the video.
Dispatch ==
  /\ pc = "dispatch"
  /\ fx' = EffectsFn(features, useMixing)
  /\ IF fx' = "copy"
       THEN StartEffects("copy") /\ pc' = "await_effects"
       ELSE pc' = "fx_probe_video" /\ UNCHANGED calls
  /\ UNCHANGED <<env, currentVideo, tempFiles, mTempFiles, props, normalizedMergeVideos, i, useMixing, probes, outcome>>

\* Whether the effects function goes on to probe the audio file after the
\* video probe: replaceAudio when no audioDuration was passed, mixAudio and
\* applySpeedWithMixedAudio always.
ProbesAudio(fn, f) == fn \in {"mixAudio", "applySpeedWithMixedAudio"} \/ (fn = "replaceAudio" /\ ~f.audio.hasDuration)

\* mixAudio / applySpeedWithMixedAudio on a video without audio return
\* replaceAudio(...) / applySpeedWithAudio(...).
Delegate(fn) == IF fn = "mixAudio" THEN "replaceAudio" ELSE "applySpeedWithAudio"

\* meta = await getVideoMetadata(videoPath) at the head of each effects
\* function; a rejection propagates.
EffectsProbeVideo ==
  /\ pc = "fx_probe_video"
  /\ \E ok \in ProbeOutcomes(currentVideo) :
       /\ ProbeEnds(currentVideo, fx, ok, FALSE)
       /\ IF ~ok
            THEN /\ CatchFinally(ProbeError(Len(probes) + 1), ProbeError(Len(probes) + 1), disk, attempted, delFailed)
                 /\ UNCHANGED <<fx, calls>>
            ELSE /\ UNCHANGED outcome
                 /\ IF fx \in {"mixAudio", "applySpeedWithMixedAudio"} /\ ~HasAudioStream(currentVideo)
                      THEN fx' = Delegate(fx) /\ pc' = "fx_probe_video" /\ UNCHANGED calls
                      ELSE IF ProbesAudio(fx, features)
                             THEN pc' = "fx_probe_audio" /\ UNCHANGED <<fx, calls>>
                             ELSE StartEffects(fx) /\ pc' = "await_effects" /\ UNCHANGED fx
  /\ UNCHANGED <<env, currentVideo, tempFiles, mTempFiles, props, normalizedMergeVideos, i, useMixing>>

\* try { audioMeta = await ffprobe(audioPath) } catch (e) { console.warn }: a
\* rejection leaves the audio duration 0 and the function goes on to the run.
EffectsProbeAudio ==
  /\ pc = "fx_probe_audio"
  /\ \E ok \in ProbeOutcomes(AudioFile) :
       ProbeEnds(AudioFile, fx, ok, ~ok)
  /\ StartEffects(fx)
  /\ pc' = "await_effects"
  /\ UNCHANGED <<env, currentVideo, tempFiles, mTempFiles, props, normalizedMergeVideos, i, fx, useMixing, outcome>>

\* The effects run settles: return outputPath, or the rejection is thrown.
EffectsDone ==
  /\ pc = "await_effects"
  /\ \E ok \in EngineOutcomes :
       /\ calls' = CallsAfterRun(ok)
       /\ IF ok
            THEN ReturnFinally(DiskAfterRun(TRUE, "complete"))
            ELSE \E left \in Leftovers : CatchFinally(EngineError(Len(calls)), EngineError(Len(calls)), DiskAfterRun(FALSE, left), attempted, delFailed)
  /\ UNCHANGED <<env, currentVideo, tempFiles, mTempFiles, props, normalizedMergeVideos, i, fx, useMixing, probes>>

Next ==
  \/ Step1a \/ TrimDone
  \/ Step1b \/ InsertProbeMain \/ InsertProbeIns \/ InsertDone
  \/ Step2 \/ MergeProbeMain \/ NormalizeMainProbe \/ NormalizeMainDone
  \/ MergeLoop \/ MergeProbeClip \/ NormalizeClipProbe \/ NormalizeClipDone \/ ConcatDone
  \/ Step3 \/ EffectsCheckAudio \/ Dispatch \/ EffectsProbeVideo \/ EffectsProbeAudio \/ EffectsDone

Spec == Init /\ [][Next]_vars

\* ------------------------------------------------------- handleExportVideo
\* hpc is the program point of the export handler, hlog the checks it has
\* made so far.  Under Spec the pipeline is called directly (hpc = "pipeline").
InitExport ==
  /\ features \in FeatureRequests
  /\ missing \in {m \in SUBSET (NamedAssets(features) \cup {Base}) : Cardinality(m) <= MaxMissing}
  /\ baseHasAudio \in (IF ReadsBaseAudio(features) THEN BOOLEAN ELSE {TRUE})
  /\ CallEntry
  /\ hpc = "check_base"
  /\ hlog = <<>>
  /\ NoOther

pipelineState == <<pc, currentVideo, tempFiles, mTempFiles, props, normalizedMergeVideos, i, fx, useMixing, disk, calls, probes, thrown, error, result, attempted, delFailed>>

\* The handler goes on although the base asset is not there.
ExportCheckBase_NoCheck ==
  /\ hpc = "check_base"
  /\ hlog' = Append(hlog, IF disk[Base] = "complete" THEN "base_exists" ELSE "base_missing")
  /\ hpc' = "dialog"
  /\ UNCHANGED <<features, missing, baseHasAudio, pipelineState, other>>

\* if (!fs.existsSync(mainVideo)) throw new Error("Main video file not found")
ExportCheckBase ==
  /\ hpc = "check_base"
  /\ IF disk[Base] = "complete"
       THEN hlog' = Append(hlog, "base_exists") /\ hpc' = "dialog"
       ELSE hlog' = Append(hlog, "base_missing") /\ hpc' = "threw"
  /\ UNCHANGED <<features, missing, baseHasAudio, pipelineState, other>>

\* result = await dialog.showSaveDialog(...): cancelled returns null.
ExportDialog ==
  /\ hpc = "dialog"
  /\ \E chosen \in BOOLEAN :
       IF chosen
         THEN hlog' = Append(hlog, "path_chosen") /\ hpc' = "prepare"
         ELSE hlog' = Append(hlog, "cancelled") /\ hpc' = "returned_null"
  /\ UNCHANGED <<features, missing, baseHasAudio, pipelineState, other>>

\* What prepareOutputPath may meet: the folder cannot be made, the test file
\* cannot be written, it cannot be deleted, or all succeed.
PrepareOutcomes == {"mkdir_failed", "write_failed", "unlink_failed", "ok"}

\* The trace prepareOutputPath leaves for each outcome.
prepareOutputPath(o) ==
  CASE o = "mkdir_failed" -> <<"mkdir_failed">>
    [] o = "write_failed" -> <<"dir_ok", "test_write_failed">>
    [] o = "unlink_failed" -> <<"dir_ok", "test_written", "test_unlink_failed">>
    [] OTHER -> <<"dir_ok", "test_written", "test_deleted">>

\* The pipeline is called whatever prepareOutputPath met.
ExportPrepare_IgnoreFailure ==
  /\ hpc = "prepare"
  /\ \E o \in PrepareOutcomes :
       /\ hlog' = hlog \o prepareOutputPath(o)
       /\ hpc' = "pipeline"
  /\ UNCHANGED <<features, missing, baseHasAudio, pipelineState, other>>

\* filePath = prepareOutputPath(filePath); return await
\* processVideoPipeline(mainVideo, features, filePath, { isPreview: false })
ExportPrepare ==
  /\ hpc = "prepare"
  /\ \E o \in PrepareOutcomes :
       /\ hlog' = hlog \o prepareOutputPath(o)
       /\ hpc' = IF o = "ok" THEN "pipeline" ELSE "threw"
  /\ UNCHANGED <<features, missing, baseHasAudio, pipelineState, other>>

\* The steps of the pipeline the handler awaits.
ExportPipeline == hpc = "pipeline" /\ Next

NextExport == ExportCheckBase \/ ExportDialog \/ ExportPrepare \/ ExportPipeline

SpecExport == InitExport /\ [][NextExport]_vars

\* ------------------------------------------------- two calls in flight
\* Two calls of processVideoPipeline interleave at their awaits.  Of each call
\* only the temp files matter here: cinv[k] holds the directory of its output
\* path, the temp files it will register (plan), those it has registered
\* (temps) and those of them it has not deleted yet (live); clock is the
\* reading of Date.now(); cfiles holds the temp files on disk with the call
\* that wrote each last.
Invocations == {1, 2}

WorkDirs == 1..MaxDirs

IdleRequest == [trim |-> [present |-> FALSE, start |-> 0, end |-> 0], insert |-> [present |-> FALSE], merge |-> <<>>, speed |-> 0, audio |-> [kind |-> "none", mode |-> "replace", hasDuration |-> FALSE]]

\* The temp files a call registers, in the order it registers them.
TempKinds(f) ==
  (IF TrimStageRuns(f) THEN <<TempTrim>> ELSE <<>>)
  \o (IF hasInsert(f) THEN <<TempInsert>> ELSE <<>>)
  \o (IF hasMerge(f) THEN <<TempMerge, NormalizedMain>> \o [k \in 1..Len(f.merge) |-> NormalizedMerge(k - 1)] \o <<ConcatFile>> ELSE <<>>)

Plans == {TempKinds(f) : f \in FeatureRequests}

\* path.join(tempDir, `temp_trim_${Date.now()}.mp4`) and the like: the name is
\* made of the directory, the kind (with the index i) and the clock reading.
TempName(dir, p, t) == <<dir, p, t>>

InitConcurrent ==
  /\ features = IdleRequest
  /\ missing = {}
  /\ baseHasAudio = TRUE
  /\ CallEntry
  /\ hpc = "pipeline"
  /\ hlog = <<>>
  /\ builderIn = NoBuilder
  /\ graph = NoGraph
  /\ clock = 0
  /\ cinv \in [Invocations -> {[dir |-> d, plan |-> pl, temps |-> <<>>, live |-> {}, mergeDone |-> FALSE, st |-> "running"] : d \in WorkDirs, pl \in Plans}]
  /\ cfiles = {}

oneCall == <<features, missing, baseHasAudio, pipelineState, hpc, hlog, builderIn, graph>>

\* Time passes between two steps.
Tick ==
  /\ clock < MaxClock
  /\ clock' = clock + 1
  /\ UNCHANGED <<cinv, cfiles, oneCall>>

\* Call k makes its next temp name, registers it and has the engine (or
\* writeFileSync) write the file.
Allocate(k) ==
  /\ cinv[k].st = "running"
  /\ Len(cinv[k].temps) < Len(cinv[k].plan)
  /\ \E p \in {TempName(cinv[k].dir, cinv[k].plan[Len(cinv[k].temps) + 1], clock)} :
       /\ cinv' = [cinv EXCEPT ![k].temps = Append(@, p), ![k].live = @ \cup {p}]
       /\ cfiles' = {r \in cfiles : r.path # p} \cup {[path |-> p, writer |-> k]}
  /\ UNCHANGED <<clock, oneCall>>

IsMergeTemp(p) == p[2] \in MergeTemps

\* mergeVideos of call k returns: its finally block unlinks its temp files.
MergeFinally(k) ==
  /\ cinv[k].st = "running"
  /\ ~cinv[k].mergeDone
  /\ Len(cinv[k].temps) = Len(cinv[k].plan)
  /\ \E p \in Range(cinv[k].temps) : IsMergeTemp(p)
  /\ cfiles' = {r \in cfiles : ~(r.path \in Range(cinv[k].temps) /\ IsMergeTemp(r.path))}
  /\ cinv' = [cinv EXCEPT ![k].mergeDone = TRUE, ![k].live = {p \in @ : ~IsMergeTemp(p)}]
  /\ UNCHANGED <<clock, oneCall>>

\* Call k ends: the finally block of processVideoPipeline unlinks tempFiles.
PipelineFinally(k) ==
  /\ cinv[k].st = "running"
  /\ Len(cinv[k].temps) = Len(cinv[k].plan)
  /\ cinv[k].mergeDone \/ ~\E p \in Range(cinv[k].temps) : IsMergeTemp(p)
  /\ cfiles' = {r \in cfiles : ~(r.path \in Range(cinv[k].temps) /\ ~IsMergeTemp(r.path))}
  /\ cinv' = [cinv EXCEPT ![k].st = "done", ![k].live = {}]
  /\ UNCHANGED <<clock, oneCall>>

NextConcurrent ==
  \/ Tick
  \/ \E k \in Invocations : Allocate(k)
  \/ \E k \in Invocations : MergeFinally(k)
  \/ \E k \in Invocations : PipelineFinally(k)

SpecConcurrent == InitConcurrent /\ [][NextConcurrent]_vars

\* ------------------------------------------------------------ insertVideo
\* The filter graph insertVideo builds, taken alone.  Times are in units of
\* 0.1 s; a segment is kept when it is longer than Eps (length > 0.1), so a
\* segment of one unit is left out.
Eps == 1

Min(x, y) == IF x <= y THEN x ELSE y

Max(x, y) == IF x >= y THEN x ELSE y

\* The arguments of insertVideo and what its two probes report: mainDur and
\* insDur (0: no duration reported), the streams' audio, position, duration,
\* trimInfo (present = FALSE: null) and mode.
InsertInputs == [fn : {"insertVideo"}, mainDur : 0..MaxDur, insDur : 0..MaxClip, mainHasA : BOOLEAN, insHasA : BOOLEAN, position : (-1)..(MaxDur + 1), duration : 1..(MaxClip + 1), trim : {NoTrimInfo} \cup [present : {TRUE}, start : (-1)..MaxDur, end : 0..(MaxDur + 1)], mode : {"sequential", "overlapping"}]

\* One trimmed segment [v<k>][a<k>]: the video is src[start, end); the audio is
\* the same range of the source's stream, or silence of length silence.
Segment(k, src, start, end, hasA, silence) == [k |-> k, src |-> src, start |-> start, end |-> end, audio |-> IF hasA THEN "stream" ELSE "silence", alen |-> IF hasA THEN end - start ELSE silence]

\* const trimStart = trimInfo?.start ?? 0 ... const hasTrim = ...
hasTrim(a) == a.trim.present /\ a.trim.end > a.trim.start

workingStart(a) == IF hasTrim(a) THEN Max(0, Min(a.trim.start, a.mainDur)) ELSE 0

workingEnd(a) == IF hasTrim(a) THEN Max(workingStart(a), Min(a.trim.end, a.mainDur)) ELSE a.mainDur

relativeInsertPos(a) == IF hasTrim(a) THEN Max(0, Min(a.position, workingEnd(a) - workingStart(a))) ELSE Min(a.position, a.mainDur)

\* const insDur = Number(insMeta.format.duration) || duration
insDur(a) == IF a.insDur # 0 THEN a.insDur ELSE a.duration

safeDur(a) == Min(a.duration, insDur(a))

\* if (isOverlapping) { ... Part 1, Part 2, Part 3 ... }
overlappingSegments(a) ==
  LET ws == workingStart(a)
      abs == ws + relativeInsertPos(a)
      baseDuration == workingEnd(a) - ws
      insertStartTime == abs - ws
      insertEndTime == Min(insertStartTime + safeDur(a), baseDuration)
      insertDuration == insertEndTime - insertStartTime
      remainingDuration == baseDuration - insertEndTime
  IN (IF insertStartTime > Eps THEN <<Segment(0, "base", ws, abs, a.mainHasA, insertStartTime)>> ELSE <<>>)
     \o <<Segment(1, "insert", 0, insertDuration, a.insHasA, insertDuration)>>
     \o (IF remainingDuration > Eps THEN <<Segment(2, "base", abs + insertDuration, workingEnd(a), a.mainHasA, remainingDuration)>> ELSE <<>>)

\* The segments of the sequential mode with the insert cut to the requested
\* duration only.
sequentialSegments_NoClipClamp(a) ==
  LET ws == workingStart(a)
      safePos == relativeInsertPos(a)
      abs == ws + safePos
      remainingInWorkingRange == workingEnd(a) - abs
  IN (IF safePos > Eps THEN <<Segment(0, "base", ws, abs, a.mainHasA, safePos)>> ELSE <<>>)
     \o <<Segment(1, "insert", 0, a.duration, a.insHasA, a.duration)>>
     \o (IF remainingInWorkingRange > Eps THEN <<Segment(2, "base", abs, workingEnd(a), a.mainHasA, remainingInWorkingRange)>> ELSE <<>>)

\* else { ... SEQUENTIAL MODE: Part 1, Part 2, Part 3 ... }
sequentialSegments(a) ==
  LET ws == workingStart(a)
      safePos == relativeInsertPos(a)
      abs == ws + safePos
      remainingInWorkingRange == workingEnd(a) - abs
  IN (IF safePos > Eps THEN <<Segment(0, "base", ws, abs, a.mainHasA, safePos)>> ELSE <<>>)
     \o <<Segment(1, "insert", 0, safeDur(a), a.insHasA, safeDur(a))>>
     \o (IF remainingInWorkingRange > Eps THEN <<Segment(2, "base", abs, workingEnd(a), a.mainHasA, remainingInWorkingRange)>> ELSE <<>>)

\* The concat filter pushed last: the labels [v<k>][a<k>] it consumes and its
\* n, chosen by whether part 3 and part 1 were pushed.
concatFilter(before, after) ==
  IF after
    THEN IF before THEN [labels |-> <<0, 1, 2>>, n |-> 3] ELSE [labels |-> <<1, 2>>, n |-> 2]
    ELSE IF before THEN [labels |-> <<0, 1>>, n |-> 2] ELSE [labels |-> <<1>>, n |-> 1]

\* if (remainingDuration > 0.1) { ... if (insertStartTime > 0.1) ... }
overlappingConcat(a) ==
  LET baseDuration == workingEnd(a) - workingStart(a)
      insertStartTime == relativeInsertPos(a)
      insertEndTime == Min(insertStartTime + safeDur(a), baseDuration)
  IN concatFilter(insertStartTime > Eps, baseDuration - insertEndTime > Eps)

\* if (remainingInWorkingRange > 0.1) { ... if (safePos > 0.1) ... }
sequentialConcat(a) == concatFilter(relativeInsertPos(a) > Eps, workingEnd(a) - (workingStart(a) + relativeInsertPos(a)) > Eps)

\* The graph handed to the engine: the segments and the concat filter that
\* consumes their labels, concat=n=<n>.
insertVideo(a) ==
  LET segs == IF a.mode = "overlapping" THEN overlappingSegments(a) ELSE sequentialSegments(a)
      cc == IF a.mode = "overlapping" THEN overlappingConcat(a) ELSE sequentialConcat(a)
  IN [built |-> TRUE, workingStart |-> workingStart(a), workingEnd |-> workingEnd(a), pos |-> relativeInsertPos(a), segs |-> segs, concat |-> cc.labels, n |-> cc.n]

InitInsert ==
  /\ features = IdleRequest
  /\ missing = {}
  /\ baseHasAudio = TRUE
  /\ CallEntry
  /\ hpc = "pipeline"
  /\ hlog = <<>>
  /\ clock = 0
  /\ cinv = <<>>
  /\ cfiles = {}
  /\ builderIn \in InsertInputs
  /\ graph = NoGraph

notBuilder == <<features, missing, baseHasAudio, pipelineState, hpc, hlog, clock, cinv, cfiles>>

\* insertVideo builds its filters (the engine run is a step of Spec).
BuildInsert ==
  /\ builderIn.fn = "insertVideo"
  /\ ~graph.built
  /\ graph' = insertVideo(builderIn)
  /\ UNCHANGED <<builderIn, notBuilder>>

NextInsert == BuildInsert

SpecInsert == InitInsert /\ [][NextInsert]_vars

\* ----------------------------------------- mergeVideos / normalizeVideo
\* The normalize requests mergeVideos builds, taken alone.  An input is what
\* its probe reports: its duration (0: none reported) and whether it has an
\* audio stream; a list entry may be missing from disk.
MergeInputs == [dur : 0..MaxDur, hasAudio : BOOLEAN, exists : {TRUE}]

MergeEntries == MergeInputs \cup {[dur |-> 0, hasAudio |-> FALSE, exists |-> FALSE]}

MergeBuilderInputs == [fn : {"mergeVideos"}, main : MergeInputs, list : UNION {[1..n -> MergeEntries] : n \in 0..MaxMerge}]

\* normalizeVideo(inputPath, outputPath, targetProps, duration): the audio is
\* the input's stream or anullsrc cut to duration; the output is limited by
\* '-t', String(duration).  from names the input, vlen is its video length.
normalizeVideo(from, in, duration) == [from |-> from, vlen |-> in.dur, audio |-> IF in.hasAudio THEN "stream" ELSE "silence", alen |-> IF in.hasAudio THEN in.dur ELSE duration, t |-> duration]

RECURSIVE normalizeList(_, _, _)
\* The list entries are normalized with the duration of the main video.
normalizeList_MainDuration(a, k, done) ==
  IF k > Len(a.list) THEN done
  ELSE IF a.list[k].exists THEN normalizeList(a, k + 1, Append(done, normalizeVideo(k, a.list[k], a.main.dur)))
  ELSE normalizeList(a, k + 1, done)

\* for (let i = 0; i < mergeVideos.length; i++): an entry on disk is probed
\* (mergeDuration) and normalized with its own duration.
normalizeList(a, k, done) ==
  IF k > Len(a.list) THEN done
  ELSE IF a.list[k].exists THEN normalizeList(a, k + 1, Append(done, normalizeVideo(k, a.list[k], a.list[k].dur)))
  ELSE normalizeList(a, k + 1, done)

\* The length of the file a normalize run writes.
NormalizedLen(n) == Min(n.t, Max(n.vlen, n.alen))

RECURSIVE ConcatLen(_)
\* The length of the concatenation of the normalized files (-c copy).
ConcatLen(ns) == IF ns = <<>> THEN 0 ELSE NormalizedLen(Head(ns)) + ConcatLen(Tail(ns))

\* mergeVideos: normalize the main video with mainDuration, then the list;
\* allVideos = [normalizedMain, ...normalizedMergeVideos].  from = 0 is the
\* main video.
mergeVideos(a) ==
  LET allVideos == normalizeList(a, 1, <<normalizeVideo(0, a.main, a.main.dur)>>)
  IN [built |-> TRUE, allVideos |-> allVideos, duration |-> ConcatLen(allVideos)]

InitMerge ==
  /\ features = IdleRequest
  /\ missing = {}
  /\ baseHasAudio = TRUE
  /\ CallEntry
  /\ hpc = "pipeline"
  /\ hlog = <<>>
  /\ clock = 0
  /\ cinv = <<>>
  /\ cfiles = {}
  /\ builderIn \in MergeBuilderInputs
  /\ graph = NoGraph

BuildMerge ==
  /\ builderIn.fn = "mergeVideos"
  /\ ~graph.built
  /\ graph' = mergeVideos(builderIn)
  /\ UNCHANGED <<builderIn, notBuilder>>

NextMerge == BuildMerge

SpecMerge == InitMerge /\ [][NextMerge]_vars

\* ------------------------------- applySpeed / applySpeedWithAudio / ...Mixed
\* The audio filter chains of the three speed functions, taken alone.  A speed
\* is a number of quarters (4 = 1.0x); a tempo factor is a fraction
\* <<numerator, denominator>>.
MaxSpeed == 16

SpeedFns == {"applySpeed", "applySpeedWithAudio", "applySpeedWithMixedAudio"}

SpeedInputs ==
  [fn : SpeedFns, speedValue : 1..MaxSpeed, videoHasAudio : BOOLEAN, hasTrim : BOOLEAN, videoDuration : 0..MaxClip, audioDuration : 0..MaxClip,
   placement : {"video_priority"}, startTime : {0}, endTime : {0}]
  \cup
  [fn : SpeedFns, speedValue : 1..MaxSpeed, videoHasAudio : BOOLEAN, hasTrim : BOOLEAN, videoDuration : 0..MaxClip, audioDuration : 0..MaxClip,
   placement : {"custom"}, startTime : 0..1, endTime : 0..MaxClip]

\* Both factors of the two-filter chain are the speed itself.
atempo_NotHalved(speedValue) == IF speedValue > 8 THEN << <<2, 1>>, <<speedValue, 4>> >> ELSE << <<speedValue, 4>> >>

\* if (speedValue > 2) atempo=2.0,atempo=speedValue/2.0 else atempo=speedValue
atempo(speedValue) == IF speedValue > 8 THEN << <<2, 1>>, <<speedValue, 8>> >> ELSE << <<speedValue, 4>> >>

\* One audio chain of a filter graph: its input stream, whether it starts
\* with atrim, its atempo filters and whether aloop follows them.
AudioChain(in, trimmed, tempo, looped) == [in |-> in, trimmed |-> trimmed, tempo |-> tempo, looped |-> looped]

\* applySpeed: [0:a]atempo...[a] when the video has audio, -an otherwise.
applySpeed(a) == IF a.videoHasAudio THEN <<AudioChain("0:a", FALSE, atempo(a.speedValue), FALSE)>> ELSE <<>>

\* if (placement === "custom" && endTime !== null && endTime > startTime &&
\* videoHasAudio), with endTime = options.endTime || null: the branch that
\* only logs a warning.
customWithSpeed(a) == a.placement = "custom" /\ a.endTime # 0 /\ a.endTime > a.startTime /\ a.videoHasAudio

\* applySpeedWithAudio cutting the new audio to the custom window, between
\* the video's own audio before and after it.
applySpeedWithAudio_CustomWindow(a) ==
  IF customWithSpeed(a)
    THEN <<AudioChain("0:a", TRUE, atempo(a.speedValue), FALSE), AudioChain("1:a", TRUE, atempo(a.speedValue), FALSE), AudioChain("0:a", TRUE, atempo(a.speedValue), FALSE)>>
    ELSE <<AudioChain("1:a", a.hasTrim, atempo(a.speedValue), FALSE)>>

\* applySpeedWithAudio: [1:a] (atrim first when hasTrim) atempo...[a],
\* whatever the placement.
applySpeedWithAudio(a) == <<AudioChain("1:a", a.hasTrim, atempo(a.speedValue), FALSE)>>

\* applySpeedWithMixedAudio: a video without audio is handed to
\* applySpeedWithAudio; otherwise [0:a] and [1:a] each get the tempo chain,
\* with aloop on the one the duration comparison selects.
applySpeedWithMixedAudio(a) ==
  IF ~a.videoHasAudio THEN applySpeedWithAudio(a)
  ELSE <<AudioChain("0:a", FALSE, atempo(a.speedValue), a.audioDuration < a.videoDuration),
         AudioChain("1:a", FALSE, atempo(a.speedValue), a.audioDuration > a.videoDuration)>>

speedFilters(a) ==
  CASE a.fn = "applySpeed" -> applySpeed(a)
    [] a.fn = "applySpeedWithAudio" -> applySpeedWithAudio(a)
    [] a.fn = "applySpeedWithMixedAudio" -> applySpeedWithMixedAudio(a)

InitSpeed ==
  /\ features = IdleRequest
  /\ missing = {}
  /\ baseHasAudio = TRUE
  /\ CallEntry
  /\ hpc = "pipeline"
  /\ hlog = <<>>
  /\ clock = 0
  /\ cinv = <<>>
  /\ cfiles = {}
  /\ builderIn \in SpeedInputs
  /\ graph = NoGraph

BuildSpeed ==
  /\ builderIn.fn \in SpeedFns
  /\ ~graph.built
  /\ graph' = [built |-> TRUE, chains |-> speedFilters(builderIn), warned |-> builderIn.fn = "applySpeedWithAudio" /\ customWithSpeed(builderIn)]
  /\ UNCHANGED <<builderIn, notBuilder>>

NextSpeed == BuildSpeed

SpecSpeed == InitSpeed /\ [][NextSpeed]_vars

\* ------------------------------------------------------------ replaceAudio
\* The filter graph replaceAudio builds under a priority placement, taken
\* alone.  videoDuration is what the probe of the video reports, audioLen is
\* the length of the audio file; audioDuration, trimStart and trimEnd are the
\* options of the request (0: not given), with the trim window inside the
\* audio; probeOk tells whether the probe of the audio file resolves.
ReplaceInputs ==
  {a \in [fn : {"replaceAudio"}, videoDuration : 1..MaxDur, videoHasAudio : BOOLEAN, audioLen : 1..MaxDur,
          audioDuration : 0..MaxDur, probeOk : BOOLEAN, trimStart : 0..MaxDur, trimEnd : 0..MaxDur,
          placement : {"audio_priority", "video_priority"}, startTime : {0}, endTime : {0}]
        \cup
        [fn : {"replaceAudio"}, videoDuration : 1..MaxDur, videoHasAudio : BOOLEAN, audioLen : 1..MaxDur,
          audioDuration : 0..MaxDur, probeOk : BOOLEAN, trimStart : 0..MaxDur, trimEnd : 0..MaxDur,
          placement : {"custom"}, startTime : (0 - 1)..(MaxDur + 1), endTime : 0..(MaxDur + 1)] :
     /\ a.audioDuration \in {0, a.audioLen}
     /\ a.trimStart <= a.audioLen
     /\ a.trimEnd <= a.audioLen}

\* priority: audioPlacement === "audio_priority" ? "audio" : (audioPlacement
\* === "video_priority" ? "video" : null), as the renderer fills the request.
priority(a) == IF a.placement = "audio_priority" THEN "audio" ELSE IF a.placement = "video_priority" THEN "video" ELSE "none"

\* hasTrim = trimEnd !== null && trimEnd > trimStart, trimEnd = options.trimEnd || null
audioHasTrim(a) == a.trimEnd # 0 /\ a.trimEnd > a.trimStart

\* actualAudioDuration: the option when given, else the probed duration, else
\* (the probe rejected, caught) 0.
actualAudioDuration(a) == IF a.audioDuration # 0 THEN a.audioDuration ELSE IF a.probeOk THEN a.audioLen ELSE 0

trimmedAudioDuration(a) == IF audioHasTrim(a) THEN a.trimEnd - a.trimStart ELSE actualAudioDuration(a)

\* One [1:a] chain: atrim=start:end when atrim, aloop after it when aloop.
ReplaceChain(atrim, start, end, aloop) == [atrim |-> atrim, start |-> start, end |-> end, aloop |-> aloop]

\* The new audio as the request trims it, played once.
PlayOnce(a) == IF audioHasTrim(a) THEN ReplaceChain(TRUE, a.trimStart, a.trimEnd, FALSE) ELSE ReplaceChain(FALSE, 0, 0, FALSE)

\* else if (priority === "audio"): loop the video when the audio is longer,
\* trim the video to the audio otherwise; outputDuration is the audio's.
audioPriority(a) ==
  IF trimmedAudioDuration(a) > a.videoDuration
    THEN [video |-> "loop", videoEnd |-> 0, audio |-> PlayOnce(a), outputDuration |-> trimmedAudioDuration(a)]
    ELSE [video |-> "trim", videoEnd |-> trimmedAudioDuration(a), audio |-> PlayOnce(a), outputDuration |-> trimmedAudioDuration(a)]

\* The audio is never looped under video priority.
videoPriorityAudio_NoLoop(a) ==
  IF trimmedAudioDuration(a) < a.videoDuration
    THEN PlayOnce(a)
    ELSE IF audioHasTrim(a) THEN ReplaceChain(TRUE, a.trimStart, a.trimStart + a.videoDuration, FALSE)
         ELSE ReplaceChain(TRUE, 0, a.videoDuration, FALSE)

\* else if (priority === "video"), the audio filter: aloop when the audio is
\* shorter than the video, atrim to the video's duration otherwise.
videoPriorityAudio(a) ==
  IF trimmedAudioDuration(a) < a.videoDuration
    THEN (IF audioHasTrim(a) THEN ReplaceChain(TRUE, a.trimStart, a.trimEnd, TRUE) ELSE ReplaceChain(FALSE, 0, 0, TRUE))
    ELSE IF audioHasTrim(a) THEN ReplaceChain(TRUE, a.trimStart, a.trimStart + a.videoDuration, FALSE)
         ELSE ReplaceChain(TRUE, 0, a.videoDuration, FALSE)

videoPriority(a) == [video |-> "copy", videoEnd |-> 0, audio |-> videoPriorityAudio(a), outputDuration |-> a.videoDuration]

\* No priority: the shorter of the two.
noPriority(a) == [video |-> "copy", videoEnd |-> 0, audio |-> PlayOnce(a), outputDuration |-> Min(a.videoDuration, trimmedAudioDuration(a))]

\* placement === "custom" && endTime !== null && endTime > startTime, with
\* endTime = options.endTime || null.
hasCustomWindow(a) == a.placement = "custom" /\ a.endTime # 0 /\ a.endTime > a.startTime

customStart(a) == Max(0, Min(a.startTime, a.videoDuration))

customEnd(a) == Max(customStart(a), Min(a.endTime, a.videoDuration))

customDuration(a) == customEnd(a) - customStart(a)

\* One audio segment of the custom timeline: its label, its source ("0:a",
\* "1:a" or "anullsrc"), the leading atrim=start:end of the new audio (pre,
\* not followed by asetpts), aloop, and the closing atrim=start:end.
AudioSegment(label, in, pre, preStart, preEnd, aloop, start, end) ==
  [label |-> label, in |-> in, pre |-> pre, preStart |-> preStart, preEnd |-> preEnd, aloop |-> aloop, start |-> start, end |-> end]

\* Segment 1: if (customStart > 0.1), the video's audio or silence.
beforeSegment(a) ==
  IF customStart(a) > Eps
    THEN <<AudioSegment("a_before", IF a.videoHasAudio THEN "0:a" ELSE "anullsrc", FALSE, 0, 0, FALSE, 0, customStart(a))>>
    ELSE <<>>

\* Segment 2: if (customDuration > 0.1), [1:a] atrim=trimStart:trimEnd when
\* hasTrim, aloop when the audio is shorter than the window, atrim=0:customDuration.
duringSegment(a) ==
  IF customDuration(a) > Eps
    THEN <<AudioSegment("a_during", "1:a", audioHasTrim(a), a.trimStart, a.trimEnd, trimmedAudioDuration(a) < customDuration(a), 0, customDuration(a))>>
    ELSE <<>>

\* Segment 3: if (customEnd < actualVideoDuration - 0.1), the video's audio
\* from customEnd or silence of afterDuration.
afterSegment(a) ==
  IF customEnd(a) < a.videoDuration - Eps
    THEN <<IF a.videoHasAudio THEN AudioSegment("a_after", "0:a", FALSE, 0, 0, FALSE, customEnd(a), a.videoDuration)
           ELSE AudioSegment("a_after", "anullsrc", FALSE, 0, 0, FALSE, 0, a.videoDuration - customEnd(a))>>
    ELSE <<>>

\* concat=n=segmentCount for more than one segment, copy for one, silence of
\* the video's duration for none.
audioConcat(segs) == IF Len(segs) > 1 THEN [kind |-> "concat", n |-> Len(segs)] ELSE IF Len(segs) = 1 THEN [kind |-> "copy", n |-> 1] ELSE [kind |-> "anullsrc", n |-> 0]

\* The custom branch of replaceAudio: the video copied, outputDuration the
\* video's, the audio segments and their concatenation.
customPlacement(a) ==
  LET segs == beforeSegment(a) \o duringSegment(a) \o afterSegment(a)
  IN [built |-> TRUE, branch |-> "custom", video |-> "copy", videoEnd |-> 0,
      customStart |-> customStart(a), customEnd |-> customEnd(a), segs |-> segs, concat |-> audioConcat(segs),
      outputDuration |-> a.videoDuration, shortest |-> (a.videoDuration = 0)]

\* replaceAudio: the custom branch when a window is given, else the branch of
\* the priority; then '-t', String(outputDuration) if (outputDuration),
\* '-shortest' otherwise.
replaceAudio(a) ==
  IF hasCustomWindow(a) THEN customPlacement(a)
  ELSE
  LET g == CASE priority(a) = "audio" -> audioPriority(a)
             [] priority(a) = "video" -> videoPriority(a)
             [] OTHER -> noPriority(a)
  IN [built |-> TRUE, branch |-> priority(a), video |-> g.video, videoEnd |-> g.videoEnd, audio |-> g.audio,
      outputDuration |-> g.outputDuration, shortest |-> (g.outputDuration = 0)]

\* What the engine makes of one audio segment.  The video's audio is as long
\* as the video, anullsrc is endless; atrim keeps the samples whose
\* timestamps lie in [start, end) and leaves the timestamps as they are; aloop
\* repeats what it is given, with timestamps from 0.
SegmentLen(a, sg) ==
  CASE sg.in = "0:a" -> Max(0, Min(sg.end, a.videoDuration) - sg.start)
    [] sg.in = "anullsrc" -> sg.end - sg.start
    [] OTHER ->
         LET first == IF sg.pre THEN sg.preStart ELSE 0
             last == IF sg.pre THEN Min(sg.preEnd, a.audioLen) ELSE a.audioLen
         IN IF sg.aloop /\ last > first THEN sg.end - sg.start
            ELSE Max(0, Min(last, sg.end) - Max(first, sg.start))

\* What the engine makes of the graph.  The [v] stream: the video, cut by
\* trim, or endless under loop.
VideoStreamLen(a, g) == IF g.video = "trim" THEN Min(a.videoDuration, g.videoEnd) ELSE a.videoDuration

VideoEndless(a, g) == g.video = "loop"

\* The [a] stream: the piece of the audio file atrim keeps, endless under aloop.
AudioPieceLen(a, g) == IF g.audio.atrim THEN Max(0, Min(g.audio.end, a.audioLen) - g.audio.start) ELSE a.audioLen

AudioEndless(a, g) == g.audio.aloop /\ AudioPieceLen(a, g) > 0

\* The length of one mapped stream in the output: -t cuts it, -shortest ends
\* it with the shorter stream.
StreamOutLen(len, endless, otherLen, otherEndless, g) ==
  IF g.shortest THEN (IF endless THEN otherLen ELSE IF otherEndless THEN len ELSE Min(len, otherLen))
  ELSE IF endless THEN g.outputDuration ELSE Min(len, g.outputDuration)

VideoOutLen(a, g) == StreamOutLen(VideoStreamLen(a, g), VideoEndless(a, g), AudioPieceLen(a, g), AudioEndless(a, g), g)

AudioOutLen(a, g) == StreamOutLen(AudioPieceLen(a, g), AudioEndless(a, g), VideoStreamLen(a, g), VideoEndless(a, g), g)

\* The duration of the output file: that of its longer stream.
ReplaceOutLen(a, g) == Max(VideoOutLen(a, g), AudioOutLen(a, g))

InitReplace ==
  /\ features = IdleRequest
  /\ missing = {}
  /\ baseHasAudio = TRUE
  /\ CallEntry
  /\ hpc = "pipeline"
  /\ hlog = <<>>
  /\ clock = 0
  /\ cinv = <<>>
  /\ cfiles = {}
  /\ builderIn \in ReplaceInputs
  /\ graph = NoGraph

BuildReplace ==
  /\ builderIn.fn = "replaceAudio"
  /\ ~graph.built
  /\ graph' = replaceAudio(builderIn)
  /\ UNCHANGED <<builderIn, notBuilder>>

NextReplace == BuildReplace

SpecReplace == InitReplace /\ [][NextReplace]_vars

\* ------------------------------------------- the audio branch of the effects
\* What the effects stage does with an audio request, taken alone: the
\* pipeline's choice between replacing and mixing and the graph mixAudio /
\* applySpeedWithMixedAudio build.  Volumes are in tenths (10 = 1.0); a
\* request volume of -1 stands for an omitted backgroundAudioVolume.  The new
\* audio is untrimmed (trimStart 0, trimEnd its duration, as the renderer
\* sends it); audioDuration is what the function's probe of it reports.
MixModes == {"mix_inserted_main", "mix_video_main"}

MixInputs ==
  [fn : {"effectsAudio"}, hasSpeed : BOOLEAN, mode : {"replace"} \cup MixModes, requestVolume : {0 - 1, 0, 3, 10},
   videoHasAudio : BOOLEAN, pipelineProbeOk : BOOLEAN, videoDuration : 1..MaxDur, audioDuration : 0..MaxClip,
   placement : {"video_priority"}, startTime : {0}, endTime : {0}]
  \cup
  [fn : {"effectsAudio"}, hasSpeed : BOOLEAN, mode : {"replace"} \cup MixModes, requestVolume : {0 - 1, 0, 3, 10},
   videoHasAudio : BOOLEAN, pipelineProbeOk : BOOLEAN, videoDuration : 1..MaxDur, audioDuration : 0..MaxClip,
   placement : {"custom"}, startTime : (0 - 1)..(MaxDur + 1), endTime : 0..(MaxDur + 1)]

\* videoHasAudio as the pipeline sees it: false when its probe rejected.
pipelineVideoHasAudio(a) == a.pipelineProbeOk /\ a.videoHasAudio

\* Mixing is selected whatever the video holds.
mixingSelected_AnyVideo(a) == a.mode \in MixModes

\* useMixing = audioMode === "mix_inserted_main" || audioMode ===
\* "mix_video_main", set only if (videoHasAudio).
mixingSelected(a) == pipelineVideoHasAudio(a) /\ a.mode \in MixModes

\* mainAudioIsVideo = audioMode === "mix_video_main", default true.
mainAudioIsVideo(a) == IF pipelineVideoHasAudio(a) THEN a.mode = "mix_video_main" ELSE TRUE

\* backgroundVolume = audioOptions.backgroundAudioVolume !== undefined ?
\* audioOptions.backgroundAudioVolume : 0.5, default 0.5.
backgroundVolume(a) == IF pipelineVideoHasAudio(a) /\ a.requestVolume # 0 - 1 THEN a.requestVolume ELSE 5

\* The function the pipeline awaits for an audio request.
audioEffectsFn(a) ==
  IF a.hasSpeed THEN (IF mixingSelected(a) THEN "applySpeedWithMixedAudio" ELSE "applySpeedWithAudio")
  ELSE (IF mixingSelected(a) THEN "mixAudio" ELSE "replaceAudio")

\* The volume filters and the amix of a mix: volume=mainAudioVolume on the
\* main track, volume=backgroundAudioVolume on the other, amix=inputs=2:
\* duration=longest:dropout_transition=0:normalize=0 over [from, to).
Mix(a, from, to) ==
  [amix |-> TRUE, normalize |-> FALSE, duration |-> "longest",
   videoVolume |-> IF mainAudioIsVideo(a) THEN 10 ELSE backgroundVolume(a),
   insertedVolume |-> IF mainAudioIsVideo(a) THEN backgroundVolume(a) ELSE 10,
   from |-> from, to |-> to]

NoMix == [amix |-> FALSE, normalize |-> FALSE, duration |-> "none", videoVolume |-> 0, insertedVolume |-> 0, from |-> 0, to |-> 0]

\* mixAudio with a custom window: the video's audio alone before and after
\* the window, the mix inside it, each segment kept when longer than 0.1 s.
mixCustom(a) ==
  [ran |-> "mixAudio", branch |-> "custom",
   before |-> customStart(a) > Eps,
   mix |-> IF customDuration(a) > Eps THEN Mix(a, customStart(a), customEnd(a)) ELSE NoMix,
   after |-> customEnd(a) < a.videoDuration - Eps,
   insertedLooped |-> customDuration(a) > Eps /\ a.audioDuration < customDuration(a)]

\* mixAudio without a window, and applySpeedWithMixedAudio always: one mix
\* over maxDuration, the shorter track looped.
mixStandard(a, ran) ==
  [ran |-> ran, branch |-> "standard", before |-> FALSE,
   mix |-> Mix(a, 0, Max(a.videoDuration, a.audioDuration)),
   after |-> FALSE,
   insertedLooped |-> a.audioDuration < a.videoDuration]

\* A replace: no mix filter, the new audio alone.
plainReplace(ran) == [ran |-> ran, branch |-> "replace", before |-> FALSE, mix |-> NoMix, after |-> FALSE, insertedLooped |-> FALSE]

\* The function called and what it does: mixAudio and
\* applySpeedWithMixedAudio hand a video without audio to replaceAudio and
\* applySpeedWithAudio.
effectsAudio(a) ==
  LET called == audioEffectsFn(a)
      g == CASE called = "mixAudio" ->
                  IF ~a.videoHasAudio THEN plainReplace("replaceAudio")
                  ELSE IF hasCustomWindow(a) THEN mixCustom(a) ELSE mixStandard(a, "mixAudio")
             [] called = "applySpeedWithMixedAudio" ->
                  IF ~a.videoHasAudio THEN plainReplace("applySpeedWithAudio")
                  ELSE mixStandard(a, "applySpeedWithMixedAudio")
             [] OTHER -> plainReplace(called)
  IN [built |-> TRUE, called |-> called, ran |-> g.ran, branch |-> g.branch, before |-> g.before, mix |-> g.mix,
      after |-> g.after, insertedLooped |-> g.insertedLooped]

InitMix ==
  /\ features = IdleRequest
  /\ missing = {}
  /\ baseHasAudio = TRUE
  /\ CallEntry
  /\ hpc = "pipeline"
  /\ hlog = <<>>
  /\ clock = 0
  /\ cinv = <<>>
  /\ cfiles = {}
  /\ builderIn \in MixInputs
  /\ graph = NoGraph

BuildMix ==
  /\ builderIn.fn = "effectsAudio"
  /\ ~graph.built
  /\ graph' = effectsAudio(builderIn)
  /\ UNCHANGED <<builderIn, notBuilder>>

NextMix == BuildMix

SpecMix == InitMix /\ [][NextMix]_vars

\* ------------------------------------------------------ encodingOptions
\* The options object of a call and what the effects function is handed,
\* taken alone.  caller is the handler making the call, or "direct" for a call
\* with the options given; audio is the format of features.audio.
ProfileInputs ==
  {a \in [fn : {"encodingOptions"}, caller : {"export", "preview", "direct"}, given : {"absent", "true", "false"},
          hasSpeed : BOOLEAN, audio : {"none", "string", "object"}, mode : {"replace"} \cup MixModes,
          videoHasAudio : BOOLEAN, pipelineProbeOk : BOOLEAN] :
     /\ a.caller # "direct" => a.given = "absent"
     /\ a.audio # "object" => a.mode = "replace"}

\* Both handlers pass isPreview: false.
handlerOptions_NeverPreview(a) == IF a.caller = "direct" THEN a.given ELSE "false"

\* handleExportVideo passes { isPreview: false }, handleGeneratePreview
\* { isPreview: true }.
handlerOptions(a) == IF a.caller = "export" THEN "false" ELSE IF a.caller = "preview" THEN "true" ELSE a.given

\* isPreview = options.isPreview || false
isPreview(o) == o = "true"

encodingOptions(preview) ==
  IF preview THEN [preset |-> "ultrafast", crf |-> "28", audioBitrate |-> "128k"]
  ELSE [preset |-> "medium", crf |-> "23", audioBitrate |-> "192k"]

\* The keys audioOptions carries, each with the request's value.
audioOptions == [k \in {"trimStart", "trimEnd", "placement", "priority", "startTime", "endTime", "videoDuration", "audioDuration", "mode", "backgroundAudioVolume"} |-> "request"]

\* The keys the mixing calls add.
mixOptions == [k \in {"mainAudioIsVideo", "mainAudioVolume", "backgroundAudioVolume"} |-> "pipeline"]

\* The function the effects stage awaits, "copy" for the stream copy.  A
\* string-format audio has no audioOptions and is never mixed.
profileEffectsFn(a) ==
  IF a.audio = "none" THEN (IF a.hasSpeed THEN "applySpeed" ELSE "copy")
  ELSE IF a.audio = "string" THEN (IF a.hasSpeed THEN "applySpeedWithAudio" ELSE "replaceAudio")
  ELSE audioEffectsFn(a)

\* The options argument of that call: encodingOptions, under { ...encodingOptions,
\* ...(audioOptions || {}) } for a replace and under the mixing keys as well
\* for a mix; none for the stream copy.  A later key of a spread wins.
effectsOptions(a, enc) ==
  LET called == profileEffectsFn(a)
      enck == [k \in {"preset", "crf", "audioBitrate"} |-> enc[k]]
      audk == IF a.audio = "object" THEN audioOptions ELSE <<>>
  IN CASE called = "copy" -> <<>>
       [] called = "applySpeed" -> enck
       [] called \in {"mixAudio", "applySpeedWithMixedAudio"} -> mixOptions @@ audk @@ enck
       [] OTHER -> audk @@ enck

InitProfile ==
  /\ features = IdleRequest
  /\ missing = {}
  /\ baseHasAudio = TRUE
  /\ CallEntry
  /\ hpc = "pipeline"
  /\ hlog = <<>>
  /\ clock = 0
  /\ cinv = <<>>
  /\ cfiles = {}
  /\ builderIn \in ProfileInputs
  /\ graph = NoGraph

BuildProfile ==
  /\ builderIn.fn = "encodingOptions"
  /\ ~graph.built
  /\ graph' = [built |-> TRUE, isPreview |-> isPreview(handlerOptions(builderIn)),
               encodingOptions |-> encodingOptions(isPreview(handlerOptions(builderIn))),
               called |-> profileEffectsFn(builderIn),
               handed |-> effectsOptions(builderIn, encodingOptions(isPreview(handlerOptions(builderIn))))]
  /\ UNCHANGED <<builderIn, notBuilder>>

NextProfile == BuildProfile

SpecProfile == InitProfile /\ [][NextProfile]_vars

\* ------------------------------------------- getFrameRate / getVideoProperties
\* The frame rate read from a probe's metadata, taken alone.  A rate field is
\* missing or a string "n/d"; nb_frames and format.duration are 0 when
\* missing; the stream's width and height are 0 when missing.  A frame rate
\* is a fraction <<n, d>> until it is rounded, then a number of hundredths.
RateFields == {[present |-> FALSE, n |-> 0, d |-> 0]} \cup [present : {TRUE}, n : {0, 24, 500, 30000}, d : {0, 1, 1001}]

FrameRateInputs ==
  [fn : {"getVideoProperties"}, hasVideoStream : BOOLEAN, r_frame_rate : RateFields, avg_frame_rate : RateFields,
   nb_frames : {0, 50, 1000}, duration : {0, 2}, width : {0, 640}, height : {0, 480}]

\* !fps || fps <= 0 || fps > 120
OutOfRange(fps) == fps[1] <= 0 \/ fps[1] > 120 * fps[2]

\* Math.round(fps * 100), in hundredths.
Round100(fps) == (200 * fps[1] + fps[2]) \div (2 * fps[2])

\* getFrameRate: fps starts as 30; r_frame_rate replaces it when it has a
\* positive denominator; avg_frame_rate, then nb_frames / duration, replace
\* an fps that is out of range when they are in range themselves; the result
\* is rounded and clamped.
getFrameRate(m) ==
  IF ~m.hasVideoStream THEN 3000
  ELSE
  LET fps1 == IF m.r_frame_rate.present /\ m.r_frame_rate.d > 0 THEN <<m.r_frame_rate.n, m.r_frame_rate.d>> ELSE <<30, 1>>
      avg == <<m.avg_frame_rate.n, m.avg_frame_rate.d>>
      fps2 == IF OutOfRange(fps1) /\ m.avg_frame_rate.present /\ m.avg_frame_rate.d > 0 /\ ~OutOfRange(avg) THEN avg ELSE fps1
      calc == <<m.nb_frames, m.duration>>
      fps3 == IF OutOfRange(fps2) /\ m.nb_frames # 0 /\ m.duration # 0 /\ ~OutOfRange(calc) THEN calc ELSE fps2
  IN Max(100, Min(12000, Round100(fps3)))

\* getVideoProperties: width || 1920, height || 1080 of the video stream.
getVideoProperties(m) ==
  [built |-> TRUE,
   width |-> IF m.hasVideoStream /\ m.width # 0 THEN m.width ELSE 1920,
   height |-> IF m.hasVideoStream /\ m.height # 0 THEN m.height ELSE 1080,
   fps |-> getFrameRate(m)]

InitFrameRate ==
  /\ features = IdleRequest
  /\ missing = {}
  /\ baseHasAudio = TRUE
  /\ CallEntry
  /\ hpc = "pipeline"
  /\ hlog = <<>>
  /\ clock = 0
  /\ cinv = <<>>
  /\ cfiles = {}
  /\ builderIn \in FrameRateInputs
  /\ graph = NoGraph

BuildFrameRate ==
  /\ builderIn.fn = "getVideoProperties"
  /\ ~graph.built
  /\ graph' = getVideoProperties(builderIn)
  /\ UNCHANGED <<builderIn, notBuilder>>

NextFrameRate == BuildFrameRate

SpecFrameRate == InitFrameRate /\ [][NextFrameRate]_vars

\* ================================================================== claims
Registered == Range(tempFiles) \cup Range(mTempFiles)

StageRank(st) == CASE st = "structural" -> 1 [] st = "merge" -> 2 [] OTHER -> 3

TrimValid(t) == t.present /\ t.start >= 0 /\ t.end > t.start

\* C1: the engine runs of one call are ordered structural -> merge -> effects
\* (one structural run at most, one effects run at most), and whenever a run
\* has been started every run before it has completed successfully.
C1_StagesSequential ==
  \A k \in 1..Len(calls) : \A m \in 1..Len(calls) :
    k < m => /\ calls[k].status = "ok"
             /\ StageRank(calls[k].stage) <= StageRank(calls[m].stage)
             /\ calls[k].stage = calls[m].stage => calls[k].stage = "merge"

\* C1 witness: a call that ran a structural stage, the merge runs and the
\* effects stage and returned.
W1_AllStagesRan ==
  /\ pc = "done" /\ result = "returned"
  /\ \E a \in 1..Len(calls) : \E b \in 1..Len(calls) : \E c \in 1..Len(calls) :
       calls[a].stage = "structural" /\ calls[b].op = "concat" /\ calls[c].stage = "effects"

\* C2: once the call has settled and no unlink has failed, no temp file of the
\* pipeline or of mergeVideos is on disk; a temp file that is on disk, or that
\* a run in flight is writing, has been registered for cleanup.
C2_NoTempLeftBehind ==
  /\ (pc = "done" /\ delFailed = {}) => \A p \in TempPaths : disk[p] = "absent"
  /\ \A p \in TempPaths : disk[p] # "absent" => p \in Registered
  /\ \A k \in 1..Len(calls) : (calls[k].status = "running" /\ calls[k].output \in TempPaths) => calls[k].output \in Registered

\* C2 witness: a run of the merge stage failed after the insert stage had
\* written its temp file, every unlink succeeded, and temp files of both the
\* pipeline and mergeVideos were deleted.
W2_MergeFailureCleaned ==
  /\ pc = "done" /\ result = "threw" /\ delFailed = {}
  /\ Len(calls) > 0 /\ calls[Len(calls)].stage = "merge" /\ calls[Len(calls)].status = "failed"
  /\ attempted \cap PipelineTemps # {}
  /\ attempted \cap MergeTemps # {}

\* C3: a failed engine run is the last run of the call, and the call rejects
\* with the error of that run, unchanged.
C3_FailureAbortsWithSameError ==
  \A k \in 1..Len(calls) : calls[k].status = "failed" =>
    /\ k = Len(calls)
    /\ pc = "done" /\ result = "threw"
    /\ error = EngineError(k)

\* C3 witness: the concat run inside mergeVideos failed and the call rejected.
W3_MergeRunFailed ==
  /\ pc = "done" /\ result = "threw"
  /\ Len(calls) > 0 /\ calls[Len(calls)].op = "concat" /\ calls[Len(calls)].status = "failed"

\* C4 (as claimed): when the call throws, no file is at the final output path.
C4_NoOutputOnFailure ==
  (pc = "done" /\ result = "threw") => disk[Out] = "absent"

\* C5: when the request has an insert, no trim run is started, and the insert
\* run reads the base asset and is handed the request's trim window.
C5_InsertSupersedesTrim ==
  hasInsert(features) =>
    \A k \in 1..Len(calls) :
      /\ calls[k].op # "trim"
      /\ calls[k].op = "insert" => (calls[k].inputs = {Base, InsertClip} /\ calls[k].trimInfo = features.trim)

\* C5 witness: a request with an insert and a valid trim window whose insert
\* run completed.
W5_InsertWithTrim ==
  /\ hasInsert(features) /\ TrimValid(features.trim)
  /\ \E k \in 1..Len(calls) : calls[k].op = "insert" /\ calls[k].status = "ok"

SpeedOps == {"speed", "speed_replace", "speed_mix"}
AudioOps == {"replace", "mix", "speed_replace", "speed_mix"}
EffectsRuns == {k \in 1..Len(calls) : calls[k].stage = "effects"}

\* C6: an effects run is the last run of the call and the only run that
\* writes the output path; it changes the speed exactly when a speed is
\* requested, touches the audio exactly when an audio is requested and is a
\* stream copy otherwise; a call that settles without an effects run failed
\* earlier, and a call that returns ran it successfully.
C6_EffectsLastAndOnlyWriter ==
  /\ \A k \in 1..Len(calls) :
       /\ calls[k].stage = "effects" <=> calls[k].output = Out
       /\ calls[k].stage = "effects" =>
            /\ k = Len(calls)
            /\ calls[k].inputs \cap (AllPaths \ {AudioFile}) = {currentVideo}
            /\ calls[k].op \in SpeedOps <=> hasSpeed(features)
            /\ calls[k].op \in AudioOps <=> hasAudio(features)
            /\ calls[k].op = "copy" <=> (~hasSpeed(features) /\ ~hasAudio(features))
  /\ (pc = "done" /\ EffectsRuns = {}) => (result = "threw" /\ thrown # NoError)
  /\ (pc = "done" /\ result = "returned") =>
       /\ Cardinality(EffectsRuns) = 1
       /\ calls[Len(calls)].status = "ok"
       /\ disk[Out] = "complete"

\* C6 witness: a call with neither speed nor audio ran the stream copy after
\* an earlier stage and returned.
W6_CopyAfterStages ==
  /\ pc = "done" /\ result = "returned"
  /\ Len(calls) > 1 /\ calls[Len(calls)].op = "copy"

NoFeature(f) == ~f.trim.present /\ ~hasInsert(f) /\ ~hasMerge(f) /\ ~hasSpeed(f) /\ ~hasAudio(f)

Malformed(f) == NoFeature(f) \/ (f.trim.present /\ f.trim.end <= f.trim.start)

\* C7 (as claimed): for a malformed request no engine run is made, nothing is
\* written at the output path and the call throws.
C7_MalformedRejected ==
  Malformed(features) =>
    /\ calls = <<>>
    /\ disk[Out] = "absent"
    /\ pc = "done" => result = "threw"

C9_ProbeFailureAborts ==
  (pc = "done" /\ \E k \in 1..Len(probes) : ~probes[k].ok) => result = "threw"

\* C10: when the call has settled, every registered path still on disk is one
\* whose unlink was attempted; no cleanup error is propagated; the call
\* returns if no stage threw and otherwise rejects with the error thrown.
C10_CleanupNeverMasks ==
  pc = "done" =>
    /\ \A p \in Range(tempFiles) : disk[p] # "absent" => p \in attempted
    /\ error.src # "cleanup"
    /\ thrown = NoError => result = "returned"
    /\ thrown # NoError => (result = "threw" /\ error = thrown)

\* C10 witness: the effects run failed, the unlink of the first registered
\* temp file failed, and the second one was still deleted.
W10_LaterFileDeleted ==
  /\ pc = "done" /\ result = "threw" /\ thrown.src = "engine"
  /\ Len(tempFiles) = 2
  /\ tempFiles[1] \in delFailed /\ disk[tempFiles[1]] # "absent"
  /\ tempFiles[2] \in attempted /\ disk[tempFiles[2]] = "absent"

PipelineEntered == pc # "step1a" \/ calls # <<>> \/ probes # <<>> \/ tempFiles # <<>>

ChecksPassed == <<"base_exists", "path_chosen", "dir_ok", "test_written", "test_deleted">>

\* C11: in an export the pipeline is called, and therefore any stage started,
\* only after the base asset was found, a path was chosen and the test file
\* was written and deleted, each exactly once; when the base is missing, the
\* dialog is cancelled or the test fails, the pipeline is never entered; the
\* test file is never written twice.
C11_ChecksBeforePipeline ==
  /\ (hpc = "pipeline" \/ PipelineEntered) => hlog = ChecksPassed
  /\ hpc \in {"threw", "returned_null"} => (~PipelineEntered /\ hlog # ChecksPassed)
  /\ Cardinality({k \in 1..Len(hlog) : hlog[k] \in {"test_written", "test_write_failed"}}) <= 1

\* C11 witness: an export whose checks passed ran the pipeline to its return.
W11_ExportRan ==
  /\ hlog = ChecksPassed
  /\ pc = "done" /\ result = "returned" /\ Len(calls) > 1

\* C12 (as claimed): two calls in flight never register the same temp path,
\* and every temp file a call has registered and not deleted itself is on disk
\* as that call wrote it.
C12_DistinctTempPaths ==
  \A a \in DOMAIN cinv : \A b \in DOMAIN cinv :
    /\ a # b => Range(cinv[a].temps) \cap Range(cinv[b].temps) = {}
    /\ \A p \in cinv[a].live : [path |-> p, writer |-> a] \in cfiles

RECURSIVE SumLen(_)
\* The total length of a sequence of segments.
SumLen(segs) == IF segs = <<>> THEN 0 ELSE (Head(segs).end - Head(segs).start) + SumLen(Tail(segs))

\* A segment reduced to its source and range.
Piece(seg) == <<seg.src, seg.start, seg.end>>

Pieces(segs) == [k \in 1..Len(segs) |-> Piece(segs[k])]

WorkingLen == graph.workingEnd - graph.workingStart

\* The sequential case C13 is about: the graph is built, the insert clip's
\* duration is known and the requested position lies in the working range.
SequentialCase ==
  /\ graph.built /\ builderIn.mode = "sequential"
  /\ builderIn.insDur > 0
  /\ 0 <= builderIn.position /\ builderIn.position <= WorkingLen

C14_OverlappingExact ==
  (graph.built /\ builderIn.mode = "overlapping" /\ builderIn.insDur > 0) =>
    LET ws == graph.workingStart
        we == graph.workingEnd
        pos == graph.pos
        L == Min(Min(builderIn.duration, builderIn.insDur), WorkingLen - pos)
    IN /\ Pieces(graph.segs) = (IF pos > 0 THEN <<<<"base", ws, ws + pos>>>> ELSE <<>>) \o <<<<"insert", 0, L>>>> \o (IF ws + pos + L < we THEN <<<<"base", ws + pos + L, we>>>> ELSE <<>>)
       /\ SumLen(graph.segs) = WorkingLen

\* C15 (as claimed): the effective insert position lies in the working range
\* and the working range lies in the base.
C15_PositionInRange ==
  graph.built =>
    /\ 0 <= graph.pos /\ graph.pos <= WorkingLen
    /\ 0 <= graph.workingStart /\ graph.workingStart <= graph.workingEnd /\ graph.workingEnd <= builderIn.mainDur

\* The artifact the merge stage is given: the output of the structural stage
\* that ran, or the base asset.
MergeInput == IF hasInsert(features) THEN TempInsert ELSE IF TrimStageRuns(features) THEN TempTrim ELSE Base

IsNormalize(k, in, out) == calls[k].op = "normalize" /\ calls[k].status = "ok" /\ calls[k].inputs = {in} /\ calls[k].output = out

\* C16 (as claimed): when the concat run is started, every run before it has
\* completed; the target properties are those of the artifact the merge stage
\* was given; that artifact and every clip of the merge list have each been
\* normalized by a run of their own; and the concat list is the normalized
\* base followed by the normalized clips in the order of the merge list.
C16_NormalizeAllThenConcat ==
  \A c \in 1..Len(calls) : calls[c].op = "concat" =>
    /\ \A k \in 1..(c - 1) : calls[k].status = "ok"
    /\ props = MergeInput
    /\ \E k \in 1..(c - 1) : IsNormalize(k, MergeInput, NormalizedMain)
    /\ \A j \in 1..Len(features.merge) : \E k \in 1..(c - 1) : IsNormalize(k, features.merge[j], NormalizedMerge(j - 1))
    /\ normalizedMergeVideos = [j \in 1..Len(features.merge) |-> NormalizedMerge(j - 1)]
    /\ calls[c].inputs = {ConcatFile, NormalizedMain} \cup Range(normalizedMergeVideos)

\* The probed duration of the input a normalize request is made from.
OwnDuration(n) == IF n.from = 0 THEN builderIn.main.dur ELSE builderIn.list[n.from].dur

RECURSIVE SumOwn(_)
SumOwn(ns) == IF ns = <<>> THEN 0 ELSE OwnDuration(Head(ns)) + SumOwn(Tail(ns))

\* C17: every normalize request is limited to the probed duration of its own
\* input, a request for an input without audio synthesizes silence of that
\* very duration, and the merged output is as long as the sum of the probed
\* durations of the inputs merged.
C17_OwnDuration ==
  graph.built =>
    /\ \A k \in 1..Len(graph.allVideos) :
         /\ graph.allVideos[k].t = OwnDuration(graph.allVideos[k])
         /\ graph.allVideos[k].audio = "silence" => graph.allVideos[k].alen = OwnDuration(graph.allVideos[k])
    /\ graph.duration = SumOwn(graph.allVideos)

\* C17 witness: a merge of a base and two clips of three different durations,
\* one of them without audio.
W17_ThreeDurations ==
  /\ graph.built /\ Len(graph.allVideos) = 3
  /\ graph.allVideos[1].t # graph.allVideos[2].t
  /\ graph.allVideos[2].t # graph.allVideos[3].t
  /\ graph.allVideos[1].t > graph.allVideos[3].t
  /\ graph.allVideos[3].t > 0
  /\ graph.allVideos[3].audio = "silence"

\* The number of audio chains each speed function builds.
ChainCount ==
  CASE builderIn.fn = "applySpeed" -> IF builderIn.videoHasAudio THEN 1 ELSE 0
    [] builderIn.fn = "applySpeedWithAudio" -> 1
    [] builderIn.fn = "applySpeedWithMixedAudio" -> IF builderIn.videoHasAudio THEN 2 ELSE 1

\* C18: in speed-only, speed+replace and speed+mix every audio chain carries
\* one tempo filter with factor s when s <= 2, and the two filters 2.0 and s/2,
\* whose product is exactly s, when s > 2.
C18_TempoChain ==
  graph.built =>
    /\ Len(graph.chains) = ChainCount
    /\ \A k \in 1..Len(graph.chains) :
         LET t == graph.chains[k].tempo
             q == builderIn.speedValue
         IN IF q <= 8
            THEN Len(t) = 1 /\ t[1][1] * 4 = q * t[1][2]
            ELSE /\ Len(t) = 2
                 /\ t[1][1] = 2 * t[1][2]
                 /\ t[2][1] * 8 = q * t[2][2]
                 /\ t[1][1] * t[2][1] * 4 = q * t[1][2] * t[2][2]

\* C18 witness: speed+mix on a video with audio at a speed above 2 built two
\* chains of two tempo filters.
W18_TwoFilters ==
  /\ graph.built /\ builderIn.fn = "applySpeedWithMixedAudio"
  /\ builderIn.speedValue > 8
  /\ Len(graph.chains) = 2
  /\ Len(graph.chains[2].tempo) = 2

\* The length of the new audio as the request trims it.
NewAudioLen == IF audioHasTrim(builderIn) THEN builderIn.trimEnd - builderIn.trimStart ELSE builderIn.audioLen

\* C19: under replace with audio priority the output is as long as the new
\* (trimmed) audio: the video is looped and cut to that length when the audio
\* is longer than the video and trimmed to it otherwise, and the audio is
\* played once, without aloop.
C19_AudioPriority ==
  (graph.built /\ builderIn.placement = "audio_priority") =>
    /\ ReplaceOutLen(builderIn, graph) = NewAudioLen
    /\ IF NewAudioLen > builderIn.videoDuration
         THEN graph.video = "loop" /\ VideoOutLen(builderIn, graph) = NewAudioLen
         ELSE graph.video = "trim" /\ graph.videoEnd = NewAudioLen
    /\ ~graph.audio.aloop
    /\ AudioOutLen(builderIn, graph) = NewAudioLen

\* C19 holds whenever the function knows the audio's duration: the probe of
\* the audio file resolved, or the request carries the duration or a trim.
C19_WhenDurationKnown ==
  (graph.built /\ builderIn.placement = "audio_priority" /\ (builderIn.probeOk \/ builderIn.audioDuration # 0 \/ audioHasTrim(builderIn))) =>
    /\ ReplaceOutLen(builderIn, graph) = NewAudioLen
    /\ ~graph.audio.aloop

\* Where in the audio file the [a] stream starts.
AudioPieceStart == IF graph.audio.atrim THEN graph.audio.start ELSE 0

\* C20: under replace with video priority the output is as long as the
\* probed video, with or without an audio stream in the video: a new audio
\* shorter than the video is looped and fills the video's length, a longer or
\* equal one is heard from its (trimmed) start, once, cut at the video's
\* length.
C20_VideoPriority ==
  (graph.built /\ builderIn.placement = "video_priority") =>
    /\ graph.outputDuration = builderIn.videoDuration
    /\ ReplaceOutLen(builderIn, graph) = builderIn.videoDuration
    /\ VideoOutLen(builderIn, graph) = builderIn.videoDuration
    /\ AudioOutLen(builderIn, graph) = builderIn.videoDuration
    /\ AudioPieceStart = (IF audioHasTrim(builderIn) THEN builderIn.trimStart ELSE 0)
    /\ IF NewAudioLen < builderIn.videoDuration
         THEN graph.audio.aloop
         ELSE AudioPieceLen(builderIn, graph) >= builderIn.videoDuration

\* C20 witness: an audio shorter than a video without audio stream was looped
\* to the video's length.
W20_LoopedOnSilentVideo ==
  /\ graph.built /\ builderIn.placement = "video_priority"
  /\ ~builderIn.videoHasAudio
  /\ NewAudioLen < builderIn.videoDuration
  /\ graph.audio.aloop
  /\ AudioPieceLen(builderIn, graph) < builderIn.videoDuration
  /\ AudioOutLen(builderIn, graph) = builderIn.videoDuration

\* The segment of the custom timeline with the given label, if it was kept.
SegmentsLabelled(l) == {k \in 1..Len(graph.segs) : graph.segs[k].label = l}

\* C21: under replace with custom placement the window satisfies
\* 0 <= customStart <= customEnd <= video duration and the audio timeline is,
\* in order, the original audio [0, customStart) (silence when the video has
\* no audio), the new audio as long as the window, looped when it is shorter,
\* and the original audio [customEnd, video duration) (silence likewise); a
\* segment is kept exactly when it is longer than 0.1 s and the concat arity
\* is the number of segments kept.
C21_CustomTimeline ==
  (graph.built /\ builderIn.placement = "custom") =>
    /\ graph.branch = "custom"
    /\ 0 <= graph.customStart /\ graph.customStart <= graph.customEnd /\ graph.customEnd <= builderIn.videoDuration
    /\ LET cs == graph.customStart
           ce == graph.customEnd
           V == builderIn.videoDuration
           labels == (IF cs > Eps THEN <<"a_before">> ELSE <<>>) \o (IF ce - cs > Eps THEN <<"a_during">> ELSE <<>>) \o (IF V - ce > Eps THEN <<"a_after">> ELSE <<>>)
       IN /\ Len(graph.segs) = Len(labels)
          /\ \A k \in 1..Len(labels) : graph.segs[k].label = labels[k]
          /\ \A k \in SegmentsLabelled("a_before") :
               /\ graph.segs[k].in = (IF builderIn.videoHasAudio THEN "0:a" ELSE "anullsrc")
               /\ graph.segs[k].start = 0
               /\ SegmentLen(builderIn, graph.segs[k]) = cs
          /\ \A k \in SegmentsLabelled("a_during") :
               /\ graph.segs[k].in = "1:a"
               /\ NewAudioLen < ce - cs => graph.segs[k].aloop
               /\ SegmentLen(builderIn, graph.segs[k]) = ce - cs
          /\ \A k \in SegmentsLabelled("a_after") :
               /\ graph.segs[k].in = (IF builderIn.videoHasAudio THEN "0:a" ELSE "anullsrc")
               /\ builderIn.videoHasAudio => graph.segs[k].start = ce
               /\ SegmentLen(builderIn, graph.segs[k]) = V - ce
          /\ graph.concat.n = Len(graph.segs)
          /\ Len(graph.segs) > 1 => graph.concat.kind = "concat"

\* C22: a mix request on a video with audio gives the main track (the video's
\* audio for mix_video_main, the new audio for mix_inserted_main) volume 1.0
\* and the other track the request's background volume, 0.5 when omitted,
\* and mixes them with normalize off and duration = longest; with custom
\* placement the mix covers the clamped window only and the video's audio
\* alone is kept outside it.
C22_MixVolumes ==
  (graph.built /\ builderIn.mode \in MixModes /\ builderIn.videoHasAudio) =>
    LET bg == IF builderIn.requestVolume = 0 - 1 THEN 5 ELSE builderIn.requestVolume
        V == builderIn.videoDuration
        cs == Max(0, Min(builderIn.startTime, V))
        ce == Max(cs, Min(builderIn.endTime, V))
    IN IF builderIn.placement = "custom"
         THEN /\ graph.branch = "custom"
              /\ graph.before = (cs > Eps)
              /\ graph.after = (V - ce > Eps)
              /\ graph.mix.amix = (ce - cs > Eps)
              /\ graph.mix.amix =>
                   /\ graph.mix.from = cs /\ graph.mix.to = ce
                   /\ ~graph.mix.normalize /\ graph.mix.duration = "longest"
                   /\ graph.mix.videoVolume = (IF builderIn.mode = "mix_video_main" THEN 10 ELSE bg)
                   /\ graph.mix.insertedVolume = (IF builderIn.mode = "mix_video_main" THEN bg ELSE 10)
         ELSE /\ graph.mix.amix
              /\ ~graph.mix.normalize /\ graph.mix.duration = "longest"
              /\ graph.mix.videoVolume = (IF builderIn.mode = "mix_video_main" THEN 10 ELSE bg)
              /\ graph.mix.insertedVolume = (IF builderIn.mode = "mix_video_main" THEN bg ELSE 10)

\* C23: a mix request (with or without speed) on an artifact without audio
\* stream is run as a plain replace: the pipeline calls the replace function,
\* no mix filter is built and the audio is the new audio alone.
C23_MixWithoutAudioIsReplace ==
  (graph.built /\ builderIn.mode \in MixModes /\ ~builderIn.videoHasAudio) =>
    /\ graph.called = (IF builderIn.hasSpeed THEN "applySpeedWithAudio" ELSE "replaceAudio")
    /\ graph.ran = graph.called
    /\ graph.branch = "replace"
    /\ ~graph.mix.amix
    /\ ~graph.before /\ ~graph.after

\* C23 witness: a speed + mix request on a video without audio was handed to
\* applySpeedWithAudio.
W23_SpeedMixOnSilentVideo ==
  /\ graph.built /\ builderIn.mode = "mix_inserted_main" /\ ~builderIn.videoHasAudio
  /\ builderIn.hasSpeed /\ builderIn.pipelineProbeOk
  /\ graph.called = "applySpeedWithAudio" /\ ~graph.mix.amix

\* C24: the profile is (ultrafast, 28, 128k) when isPreview is true and
\* (medium, 23, 192k) when it is false or absent, whatever the request; the
\* effects function is handed exactly that profile; the preview handler's
\* calls are preview calls and the export handler's are not.
C24_ProfileFromIsPreview ==
  graph.built =>
    LET preview == (builderIn.caller = "preview") \/ (builderIn.caller = "direct" /\ builderIn.given = "true")
    IN /\ graph.encodingOptions = (IF preview THEN [preset |-> "ultrafast", crf |-> "28", audioBitrate |-> "128k"]
                                   ELSE [preset |-> "medium", crf |-> "23", audioBitrate |-> "192k"])
       /\ graph.called # "copy" =>
            /\ {"preset", "crf", "audioBitrate"} \subseteq DOMAIN graph.handed
            /\ \A k \in {"preset", "crf", "audioBitrate"} : graph.handed[k] = graph.encodingOptions[k]

\* C24 witness: a preview call with speed and a mix was handed the preview
\* profile.
W24_PreviewMix ==
  /\ graph.built /\ builderIn.caller = "preview"
  /\ graph.called = "applySpeedWithMixedAudio"
  /\ graph.handed["preset"] = "ultrafast"

\* A rate the claim counts as usable: reported, with a positive denominator,
\* above 0 and at most 120.
Usable(present, n, d) == present /\ d > 0 /\ n > 0 /\ n <= 120 * d

\* C25: with a video stream the result is the exact rate when it is usable,
\* else the average rate when that is usable, else frameCount / duration when
\* that is usable, rounded to hundredths, and always within [1, 120]; without
\* a video stream the properties are 1920x1080 at 30.
C25_FrameRateFallbacks ==
  graph.built =>
    LET m == builderIn
        clamp(h) == Max(100, Min(12000, h))
    IN IF ~m.hasVideoStream THEN graph.width = 1920 /\ graph.height = 1080 /\ graph.fps = 3000
       ELSE /\ graph.fps >= 100 /\ graph.fps <= 12000
            /\ Usable(m.r_frame_rate.present, m.r_frame_rate.n, m.r_frame_rate.d) =>
                 graph.fps = clamp(Round100(<<m.r_frame_rate.n, m.r_frame_rate.d>>))
            /\ (~Usable(m.r_frame_rate.present, m.r_frame_rate.n, m.r_frame_rate.d)
                 /\ Usable(m.avg_frame_rate.present, m.avg_frame_rate.n, m.avg_frame_rate.d)) =>
                 graph.fps = clamp(Round100(<<m.avg_frame_rate.n, m.avg_frame_rate.d>>))
            /\ (~Usable(m.r_frame_rate.present, m.r_frame_rate.n, m.r_frame_rate.d)
                 /\ ~Usable(m.avg_frame_rate.present, m.avg_frame_rate.n, m.avg_frame_rate.d)
                 /\ Usable(m.nb_frames # 0, m.nb_frames, m.duration)) =>
                 graph.fps = clamp(Round100(<<m.nb_frames, m.duration>>))

\* The output of the structural stage that runs for the request, the base
\* when none does.
StructuralArtifact == IF hasInsert(features) THEN TempInsert ELSE IF TrimStageRuns(features) THEN TempTrim ELSE Base

\* The artifact handed to the effects stage.
MergedArtifact == IF hasMerge(features) THEN TempMerge ELSE StructuralArtifact

\* C26: the current artifact starts as the base; a trim and an insert read
\* the base, the merge reads and takes its target properties from the output
\* of the structural stage (the base when it was skipped), the effects read
\* the output of the merge (the structural artifact when it was skipped); once
\* a stage has completed the current artifact is its temp output.
C26_CurrentArtifact ==
  /\ pc \in {"step1a", "await_trim", "ins_probe_main", "ins_probe_ins", "await_insert"} => currentVideo = Base
  /\ pc = "step1b" => currentVideo = (IF TrimStageRuns(features) THEN TempTrim ELSE Base)
  /\ pc \in {"step2", "mg_probe_main", "mg_norm_main_probe", "await_norm_main", "mg_loop", "mg_probe_clip", "mg_norm_clip_probe", "await_norm_clip", "await_concat"} =>
       currentVideo = StructuralArtifact
  /\ pc \in {"step3", "fx_check_audio", "dispatch", "fx_probe_video", "fx_probe_audio", "await_effects"} => currentVideo = MergedArtifact
  /\ (pc = "done" /\ result = "returned") => currentVideo = MergedArtifact
  /\ props # NoProps => props = StructuralArtifact
  /\ \A k \in 1..Len(calls) :
       /\ calls[k].op = "trim" => calls[k].inputs = {Base} /\ calls[k].output = TempTrim
       /\ calls[k].op = "insert" => calls[k].inputs = {Base, InsertClip} /\ calls[k].output = TempInsert
       /\ calls[k].output = NormalizedMain => calls[k].inputs = {StructuralArtifact}
       /\ calls[k].op = "concat" => calls[k].output = TempMerge
       /\ calls[k].stage = "effects" => MergedArtifact \in calls[k].inputs /\ calls[k].inputs \subseteq {MergedArtifact, AudioFile}

\* C26 witness: a call that trimmed, merged and returned: the merge took its
\* properties from the trimmed base and the effects read the merged file.
W26_TrimThenMerge ==
  /\ pc = "done" /\ result = "returned"
  /\ props = TempTrim
  /\ currentVideo = TempMerge
  /\ \E k \in 1..Len(calls) : calls[k].stage = "effects" /\ TempMerge \in calls[k].inputs

\* The length of the insert piece of the built graph.
InsertLen == LET ins == SelectSeq(graph.segs, LAMBDA sg : sg.k = 1) IN IF ins = <<>> THEN 0 ELSE ins[1].end - ins[1].start

HasLabel(l) == \E k \in 1..Len(graph.segs) : graph.segs[k].k = l

\* C27 (as claimed): in both modes the "before" segment is emitted exactly
\* when the insert does not begin at the start of the working range and the
\* "after" segment exactly when it does not run to its end; the concat's n is
\* in 1..3 and counts the segments emitted; every label the concat consumes
\* is produced by exactly one filter before it; every video segment has an
\* audio segment, the stream's or silence, of its own length; and every
\* segment has positive length.
C27_SegmentsAndConcat ==
  graph.built =>
    /\ HasLabel(0) <=> graph.pos # 0
    /\ HasLabel(2) <=> (IF builderIn.mode = "overlapping" THEN graph.pos + InsertLen ELSE graph.pos) # WorkingLen
    /\ graph.n \in 1..3 /\ graph.n = Len(graph.segs) /\ graph.n = Len(graph.concat)
    /\ \A j \in 1..Len(graph.concat) : Cardinality({k \in 1..Len(graph.segs) : graph.segs[k].k = graph.concat[j]}) = 1
    /\ \A k \in 1..Len(graph.segs) :
         /\ graph.segs[k].audio \in {"stream", "silence"}
         /\ graph.segs[k].alen = graph.segs[k].end - graph.segs[k].start
         /\ graph.segs[k].end - graph.segs[k].start > 0

\* C28 (as claimed): for every speed from 0.25 to 4 in steps of 0.25, every
\* tempo factor of every audio chain the speed stages build lies in [0.5, 2].
C28_TempoInRange ==
  graph.built =>
    \A k \in 1..Len(graph.chains) : \A j \in 1..Len(graph.chains[k].tempo) :
      LET f == graph.chains[k].tempo[j]
      IN f[2] <= 2 * f[1] /\ f[1] <= 2 * f[2]

\* The same request with a priority placement instead of the custom window.
WithoutCustom == [builderIn EXCEPT !.placement = "video_priority", !.startTime = 0, !.endTime = 0]

\* C29: speed + replace with a custom placement builds no timeline of
\* segments: one chain on the new audio, not looped, trimmed and tempo-adjusted
\* exactly as for the same request without the custom window.
C29_CustomIgnoredWithSpeed ==
  (graph.built /\ builderIn.fn = "applySpeedWithAudio" /\ builderIn.speedValue # 4 /\ builderIn.placement = "custom") =>
    /\ Len(graph.chains) = 1
    /\ graph.chains[1].in = "1:a"
    /\ ~graph.chains[1].looped
    /\ graph.chains[1].trimmed = builderIn.hasTrim
    /\ graph.chains = speedFilters(WithoutCustom)

\* C29 witness: a speed + replace graph built for a valid custom window on a
\* video with audio, where the warning branch was taken.
W29_WarnedCustom ==
  /\ graph.built /\ builderIn.fn = "applySpeedWithAudio"
  /\ builderIn.speedValue > 8
  /\ builderIn.placement = "custom" /\ builderIn.endTime > builderIn.startTime
  /\ graph.warned

\* C30: the cleanup list of processVideoPipeline holds only the temp outputs
\* it named, that of mergeVideos only the normalized files and the concat
\* list it named; no unlink is ever attempted on the base, the insert clip, a
\* merge clip, the audio file or the final output, and every user file is on
\* disk as it was when the call began.
C30_OnlyOwnTemps ==
  /\ \A k \in 1..Len(tempFiles) : tempFiles[k] \in PipelineTemps
  /\ \A k \in 1..Len(mTempFiles) : mTempFiles[k] \in MergeTemps
  /\ attempted \cap (UserAssets \cup {Out}) = {}
  /\ \A p \in UserAssets : disk[p] = (IF p \in missing THEN "absent" ELSE "complete")

\* C30 witness: a call with an insert, a merge and audio failed after files
\* of both cleanup lists had been unlinked.
W30_CleanedAfterFailure ==
  /\ pc = "done" /\ result = "threw"
  /\ hasInsert(features) /\ features.merge # <<>> /\ features.audio.kind # "none"
  /\ TempInsert \in attempted
  /\ NormalizedMain \in attempted
====
